---- MODULE Spec2Model ----
(***************************************************************************)
(* UPICONNECT: the application lifecycle (jobs, applications, status       *)
(* transitions, slot counts, notification call) as a state machine.        *)
(*                                                                         *)
(* The record store is the hosted relational store the pages talk to; its  *)
(* tables, defaults and constraints are the ones the source documents      *)
(* (src/src/domain/jobs/jobService.ts:4-22).  Every browser tab is a page  *)
(* controller with its React state; an async handler is cut at its awaits: *)
(* one step starts the handler, one step per awaited store call performs   *)
(* the call on the store and runs the handler up to its next await.        *)
(***************************************************************************)
EXTENDS Integers, Sequences, FiniteSets, TLC

----------------------------------------------------------------------------
(* Bounds of the model *)

MaxJobs == 2        \* jobs.id serial is used up to this value
MaxApps == 2        \* applications.id serial is used up to this value
MaxMsgs == 3        \* messages.id serial is used up to this value
MaxUsers == 2        \* auth accounts created by sign-up
MaxMails == 2        \* emails the provider accepts

Students      == {"s1", "s2"}
Recruiters    == {"r1"}
StudentTabs   == {"a1", "a2", "a3"}
RecruiterTabs == {"t1", "t2"}
Tabs          == StudentTabs \cup RecruiterTabs
VisitorTabs   == {"a3", "t2"}      \* the tabs that visit the public pages

\* the authenticated user of each browser tab (two tabs of student s1,
\* one of student s2, two tabs of recruiter r1)
UserOf(t) ==
  CASE t = "a1" -> "s1"
    [] t = "a2" -> "s1"
    [] t = "a3" -> "s2"
    [] OTHER    -> "r1"

\* values a recruiter can leave in the slots input (type="number"):
\* empty, or a number
SlotInputs == {<<>>, <<-1>>, <<0>>, <<1>>, <<2>>}

----------------------------------------------------------------------------
(* Values *)

\* SQL NULL / JS null for a numeric column: the empty sequence; a number n
\* is <<n>>
NULL == <<>>
Some(n) == <<n>>
IsNull(x) == x = <<>>

ABIERTA   == "ABIERTA"
CERRADA   == "CERRADA"
POSTULADO == "POSTULADO"
PENDIENTE == "PENDIENTE"
ACEPTADO  == "ACEPTADO"
RECHAZADO == "RECHAZADO"

\* the default of applications.status: the schema comment says 'POSTULADO',
\* the pages that read the column test for 'PENDIENTE'
StatusDefaults == {POSTULADO, PENDIENTE}

NoMessage == [type |-> "none", text |-> ""]
Msg(type, text) == [type |-> type, text |-> text]

VARIABLES
  jobs,            \* table jobs: rows [id, recruiter_id, status, available_slots]
  applications,    \* table applications: rows [id, job_id, student_id, status]
  messages,        \* table messages: rows [id, recruiter_id, student_id, job_id, sender_type]
  nextJobId,       \* serial of jobs.id
  nextAppId,       \* serial of applications.id
  nextMsgId,       \* serial of messages.id
  statusDefault,   \* default of applications.status in the store's schema
  users,           \* auth accounts: rows [id, email]
  students,        \* table students: rows [id, enrollment_number]
  recruiters,      \* table recruiters: rows [id]
  nextUserId,      \* number of the next account id the auth service hands out
  outbox,          \* emails the provider accepted: sequence of [to, applicationId]
  tab              \* per browser tab: the page controller's state

accountVars == <<users, students, recruiters, nextUserId>>
storeVars == <<jobs, applications, messages, nextJobId, nextAppId, nextMsgId, statusDefault,
               accountVars, outbox>>
vars == <<storeVars, tab>>

----------------------------------------------------------------------------
(* The record store: constraints of the schema *)

JobIds == {j.id : j \in jobs}
JobRow(id) == CHOOSE j \in jobs : j.id = id
AppRow(id) == CHOOSE a \in applications : a.id = id

\* (the store without the unique constraint)
UniqueViolation_dropped(jobId, studentId) == FALSE

\* unique (job_id, student_id) on applications
UniqueViolation(jobId, studentId) ==
  \E a \in applications : a.job_id = jobId /\ a.student_id = studentId

\* applications.job_id references jobs(id): an insert needs the job
ForeignKeyMissing(jobId) == jobId \notin JobIds

\* applications.job_id references jobs(id): a referenced job cannot be deleted
ForeignKeyReferenced(jobId) == \E a \in applications : a.job_id = jobId

----------------------------------------------------------------------------
(* jobService.ts: the error a wrapper throws.  An error message is a        *)
(* sequence of text pieces; concatenation is \o.                            *)

JOB_CREATE_ERROR         == "JOB_CREATE_ERROR: "
JOB_AVAILABILITY_ERROR   == "JOB_AVAILABILITY_ERROR: "
JOB_APPLICATION_ERROR    == "JOB_APPLICATION_ERROR: "
APPLICATION_STATUS_ERROR == "APPLICATION_STATUS_ERROR: "

\* `if (error) throw new Error(PREFIX + error.message)` sits inside the try
\* whose catch throws `new Error(PREFIX + err.message)` again
WrapperError(prefix, storeMessage) == <<prefix>> \o (<<prefix>> \o storeMessage)

\* String.prototype.includes on the thrown message, for a prefix tag
Includes(message, prefix) == \E i \in 1..Len(message) : message[i] = prefix

----------------------------------------------------------------------------
(* Page controller state *)

\* a request to the notification route: where the route stands, what it
\* looked up, and its response (status 0 while it runs); attempted and
\* sendError record what the route did with the email provider
NoRequest ==
  [pc |-> "none", applicationId |-> 0, application |-> <<>>, studentEmail |-> "",
   attempted |-> FALSE, sendError |-> FALSE,
   status |-> 0, ok |-> FALSE, body |-> <<>>]

\* a second run of a status handler of the page, started while the first
\* is at an await
NoCall == [pc |-> "none", argApp |-> 0, argStatus |-> ""]

IdleTab ==
  [page |-> "none", pc |-> "idle",
   apps |-> {}, jobs |-> {}, newSlots |-> NULL,
   message |-> NoMessage, processingId |-> 0,
   argJob |-> 0, argApp |-> 0, argStatus |-> "", argSlots |-> NULL,
   selected |-> <<>>, msgs |-> <<>>,
   inflight |-> {}, loadingMessages |-> FALSE, sending |-> <<>>,
   email |-> "", enrollmentNumber |-> "", userId |-> "", verbatim |-> <<>>,
   route |-> NoRequest, other |-> NoCall,
   mode |-> "", session |-> "",
   prior |-> "", accepted |-> FALSE, posted |-> 0, outcome |-> "none",
   err |-> <<>>]

\* the accounts of the users of the tabs: each has its profile row
InitAccounts ==
  /\ users = {[id |-> u, email |-> u] : u \in Students \cup Recruiters}
  /\ students = {[id |-> "s1", enrollment_number |-> "b1"],
                 [id |-> "s2", enrollment_number |-> "b2"]}
  /\ recruiters = {[id |-> u] : u \in Recruiters}
  /\ nextUserId = 1
  /\ outbox = <<>>

Init ==
  /\ jobs = {}
  /\ applications = {}
  /\ messages = {}
  /\ nextJobId = 1
  /\ nextAppId = 1
  /\ nextMsgId = 1
  /\ statusDefault \in StatusDefaults
  /\ InitAccounts
  /\ tab = [t \in Tabs |-> IdleTab]

----------------------------------------------------------------------------
(* Navigation: a tab opens a page; the page's mount effect loads its data *)

StudentPages   == {"JobsPage", "StudentMessages", "StudentDashboard"}
RecruiterPages == {"Dashboard", "Dashboard2", "Applications", "JobDetail",
                   "JobNew", "CreateJob", "Messages"}

PublicPages    == {"RegisterStudent", "RegisterRecruiter", "Login"}

\* first await of the mount effect of a page
FirstLoad(p) ==
  CASE p \in {"JobsPage", "Dashboard", "Dashboard2", "JobDetail", "Messages"} -> "load_jobs"
    [] p \in {"Applications", "StudentMessages", "StudentDashboard"} -> "load_apps"
    [] OTHER -> "idle"

OpenPage(t, p, jobId) ==
  /\ tab[t].pc = "idle"
  /\ p \in PublicPages \cup
            (IF t \in StudentTabs THEN StudentPages ELSE RecruiterPages)
  /\ jobId \in (IF p = "JobDetail" THEN 1..MaxJobs ELSE {0})
  /\ tab' = [tab EXCEPT ![t] =
                [IdleTab EXCEPT !.page = p, !.pc = FirstLoad(p), !.argJob = jobId,
                                !.session = tab[t].session]]
  /\ UNCHANGED storeVars

\* the rows the page's jobs query returns
JobsQuery(t) ==
  CASE tab[t].page = "JobsPage"  -> {j \in jobs : j.status = ABIERTA}
    [] tab[t].page = "JobDetail" -> {j \in jobs : j.id = tab[t].argJob}
    [] OTHER                     -> {j \in jobs : j.recruiter_id = UserOf(t)}

\* (the applications select without its .in("job_id", jobIds))
AppsQuery_unfiltered(t) == applications

\* the rows the page's applications query returns.  The dashboards filter
\* on the embedded resource (jobs.recruiter_id), which leaves the
\* application rows themselves unfiltered.
AppsQuery(t) ==
  CASE tab[t].page \in {"JobsPage", "StudentMessages", "StudentDashboard"} ->
         {a \in applications : a.student_id = UserOf(t)}
    [] tab[t].page = "JobDetail" -> {a \in applications : a.job_id = tab[t].argJob}
    [] tab[t].page = "Messages"  ->
         {a \in applications : a.job_id \in {j.id : j \in tab[t].jobs}}
    [] OTHER                     -> applications

\* fetchJob initialises the slots input from the loaded row
SlotsField(rows) ==
  IF rows = {} THEN NULL ELSE (CHOOSE j \in rows : TRUE).available_slots

LoadJobs(t, fail) ==
  /\ tab[t].pc = "load_jobs"
  /\ LET p == tab[t].page IN
     IF fail
     THEN tab' = [tab EXCEPT
            ![t].jobs = {},
            ![t].message = Msg("error", "No fue posible cargar vacantes"),
            ![t].pc = IF p \in {"JobsPage", "Messages"} THEN "idle" ELSE "load_apps"]
     ELSE tab' = [tab EXCEPT
            ![t].jobs = JobsQuery(t),
            ![t].newSlots = IF p = "JobDetail" THEN SlotsField(JobsQuery(t)) ELSE NULL,
            ![t].message = IF p = "JobDetail" /\ JobsQuery(t) = {}
                           THEN Msg("error", "No se encontro la vacante")
                           ELSE NoMessage,
            ![t].pc = "load_apps"]
  /\ UNCHANGED storeVars

\* the jobs(id, title, recruiters(id, company_name)) rows embedded in the
\* applications the student messages page selects
EmbeddedJobs(rows) == {j \in jobs : j.id \in {a.job_id : a \in rows}}

LoadApps(t, fail) ==
  /\ tab[t].pc = "load_apps"
  /\ IF fail
     THEN tab' = [tab EXCEPT
            ![t].apps = {},
            ![t].message =
              CASE tab[t].page \in {"Dashboard", "Dashboard2"} -> @
                [] tab[t].page = "StudentMessages" ->
                     Msg("error", "No fue posible cargar las conversaciones.")
                [] OTHER -> Msg("error", "No fue posible cargar postulaciones"),
            ![t].pc = "idle"]
     ELSE tab' = [tab EXCEPT
            ![t].apps = AppsQuery(t),
            ![t].jobs = IF tab[t].page = "StudentMessages"
                        THEN EmbeddedJobs(AppsQuery(t)) ELSE @,
            ![t].pc = "idle"]
  /\ UNCHANGED storeVars

----------------------------------------------------------------------------
(* jobService.ts: the four wrappers.  Each is one awaited store call;      *)
(* `fail` is a store-reported error that leaves the table as it was        *)
(* (network, permission).  A wrapper yields the thrown message, <<>> when   *)
(* it returns normally.                                                    *)

\* applyToJob(jobId, studentId): error thrown
applyToJobError(jobId, studentId, fail) ==
  IF fail THEN WrapperError(JOB_APPLICATION_ERROR, <<"store error">>)
  ELSE IF ForeignKeyMissing(jobId)
       THEN WrapperError(JOB_APPLICATION_ERROR, <<"violates foreign key constraint">>)
  ELSE IF UniqueViolation(jobId, studentId)
       THEN WrapperError(JOB_APPLICATION_ERROR, <<"duplicate key value violates unique constraint">>)
  ELSE <<>>

\* applyToJob(jobId, studentId): the table after the call
applyToJob(jobId, studentId, fail) ==
  IF applyToJobError(jobId, studentId, fail) # <<>>
  THEN applications
  ELSE applications \cup
         {[id |-> nextAppId, job_id |-> jobId, student_id |-> studentId,
           status |-> statusDefault]}

\* setApplicationStatus(applicationId, status): the table after the call
\* (the update without its .eq("id", applicationId) filter)
setApplicationStatus_unfiltered(applicationId, status, fail) ==
  IF fail THEN applications
  ELSE {[a EXCEPT !.status = status] : a \in applications}

\* (a wrapper that checks the status before it calls the store)
setApplicationStatus_validating(applicationId, status, fail) ==
  IF fail \/ status \notin {POSTULADO, PENDIENTE, ACEPTADO, RECHAZADO} THEN applications
  ELSE {IF a.id = applicationId THEN [a EXCEPT !.status = status] ELSE a :
          a \in applications}

\* setApplicationStatus(applicationId, status): the table after the call
setApplicationStatus(applicationId, status, fail) ==
  IF fail THEN applications
  ELSE {IF a.id = applicationId THEN [a EXCEPT !.status = status] ELSE a :
          a \in applications}

setApplicationStatusError(fail) ==
  IF fail THEN WrapperError(APPLICATION_STATUS_ERROR, <<"store error">>) ELSE <<>>

\* (an update that keeps a slot for every accepted application)
updateJobAvailability_checked(jobId, availableSlots, fail) ==
  IF fail \/ availableSlots <
       Cardinality({a \in applications : a.job_id = jobId /\ a.status = ACEPTADO})
  THEN jobs
  ELSE {IF j.id = jobId THEN [j EXCEPT !.available_slots = Some(availableSlots)] ELSE j :
          j \in jobs}

\* updateJobAvailability(jobId, availableSlots): the table after the call
updateJobAvailability(jobId, availableSlots, fail) ==
  IF fail THEN jobs
  ELSE {IF j.id = jobId THEN [j EXCEPT !.available_slots = Some(availableSlots)] ELSE j :
          j \in jobs}

updateJobAvailabilityError(fail) ==
  IF fail THEN WrapperError(JOB_AVAILABILITY_ERROR, <<"store error">>) ELSE <<>>

\* createJob(input): the payload's available_slots is `availableSlots ?? 1`
\* createJob(input): error thrown
createJobError(fail) ==
  IF fail THEN WrapperError(JOB_CREATE_ERROR, <<"store error">>) ELSE <<>>

createJobSlots(availableSlots) ==
  IF IsNull(availableSlots) THEN Some(1) ELSE availableSlots

\* applyToJob called for a student outside the pages modelled here (another
\* session of that student): the whole call in one step
applyToJob_call(jobId, studentId, fail) ==
  /\ applyToJobError(jobId, studentId, fail) # <<>> \/ nextAppId <= MaxApps
  /\ applications' = applyToJob(jobId, studentId, fail)
  /\ nextAppId' = IF applyToJobError(jobId, studentId, fail) = <<>>
                  THEN nextAppId + 1 ELSE nextAppId
  /\ UNCHANGED <<jobs, messages, nextJobId, nextMsgId, statusDefault, accountVars, outbox, tab>>

\* the values a caller can hand to setApplicationStatus: the parameter's
\* union type is erased at run time
StatusInputs == {ACEPTADO, RECHAZADO, POSTULADO, "OTRO"}

\* setApplicationStatus called by code other than the pages modelled here,
\* running in tab t: the call up to its await
setApplicationStatus_call(t, applicationId, status) ==
  /\ tab[t].page = "none" /\ tab[t].pc = "idle"
  /\ tab' = [tab EXCEPT ![t].argApp = applicationId, ![t].argStatus = status,
                        ![t].outcome = "none", ![t].err = <<>>,
                        ![t].pc = "await_update"]
  /\ UNCHANGED storeVars

\* the update of that call returns: the wrapper returns or throws
setApplicationStatus_return(t, fail) ==
  /\ tab[t].pc = "await_update"
  /\ applications' = setApplicationStatus(tab[t].argApp, tab[t].argStatus, fail)
  /\ tab' = [tab EXCEPT
       ![t].outcome = IF setApplicationStatusError(fail) = <<>> THEN "ok" ELSE "error",
       ![t].err = setApplicationStatusError(fail),
       ![t].pc = "idle"]
  /\ UNCHANGED <<jobs, messages, nextJobId, nextAppId, nextMsgId, statusDefault,
                 accountVars, outbox>>

----------------------------------------------------------------------------
(* JobsPage (student): handleApply *)

\* `disabled = applied || noSlots || job.status !== "ABIERTA"` on the rows
\* the page holds
ApplyDisabled(t, job) ==
  \/ \E a \in tab[t].apps : a.job_id = job.id
  \/ (IF IsNull(job.available_slots) THEN 0 ELSE job.available_slots[1]) <= 0
  \/ job.status # ABIERTA

handleApply(t, job) ==
  /\ tab[t].page = "JobsPage" /\ tab[t].pc = "idle"
  /\ job \in tab[t].jobs
  /\ ~ApplyDisabled(t, job)
  /\ tab' = [tab EXCEPT ![t].message = NoMessage, ![t].argJob = job.id,
                        ![t].outcome = "none", ![t].err = <<>>,
                        ![t].verbatim = <<>>,
                        ![t].pc = "await_applyToJob"]
  /\ UNCHANGED storeVars

handleApply_applyToJob(t, fail) ==
  /\ tab[t].pc = "await_applyToJob"
  /\ applyToJobError(tab[t].argJob, UserOf(t), fail) # <<>> \/ nextAppId <= MaxApps
  /\ LET err == applyToJobError(tab[t].argJob, UserOf(t), fail) IN
     /\ applications' = applyToJob(tab[t].argJob, UserOf(t), fail)
     /\ nextAppId' = IF err = <<>> THEN nextAppId + 1 ELSE nextAppId
     /\ IF err = <<>>
        THEN tab' = [tab EXCEPT ![t].outcome = "ok", ![t].pc = "await_reloadApplications"]
        ELSE tab' = [tab EXCEPT
               ![t].outcome = "error",
               ![t].err = err,
               ![t].verbatim = IF Includes(err, JOB_APPLICATION_ERROR) THEN <<>> ELSE err,
               ![t].message =
                  IF Includes(err, JOB_APPLICATION_ERROR)
                  THEN Msg("error", "No fue posible completar tu postulacion.")
                  ELSE Msg("error", "verbatim"),
               ![t].pc = "idle"]
  /\ UNCHANGED <<jobs, messages, nextJobId, nextMsgId, statusDefault, accountVars, outbox>>

handleApply_reloadApplications(t, fail) ==
  /\ tab[t].pc = "await_reloadApplications"
  /\ tab' = [tab EXCEPT
       ![t].apps = IF fail THEN @ ELSE AppsQuery(t),
       ![t].message = Msg("success", "Te has postulado a la vacante."),
       ![t].pc = "idle"]
  /\ UNCHANGED storeVars

----------------------------------------------------------------------------
(* Recruiter pages: accepting or rejecting an application *)

StatusPages == {"Dashboard", "Dashboard2", "Applications", "JobDetail"}

\* (every page guarding its buttons the way the first dashboard does)
StatusButtonDisabled_guarded(t, app) ==
  app.status # PENDIENTE \/ tab[t].processingId = app.id

\* the `disabled` attribute of the Aceptar / Rechazar buttons of a row
StatusButtonDisabled(t, app) ==
  CASE tab[t].page = "Dashboard" ->
         app.status # PENDIENTE \/ tab[t].processingId = app.id
    [] tab[t].page = "Applications" -> tab[t].processingId = app.id
    [] OTHER -> FALSE

\* the status the store holds for an application id ("" when no row)
StoredStatus(applicationId) ==
  IF \E a \in applications : a.id = applicationId
  THEN AppRow(applicationId).status ELSE ""

\* setApplications(prev => prev.map(...)) after a successful update; the
\* dashboard also drops the rows that are now RECHAZADO
ViewAfterStatus(t, applicationId, status) ==
  LET mapped == {IF a.id = applicationId THEN [a EXCEPT !.status = status] ELSE a :
                   a \in tab[t].apps}
  IN IF tab[t].page = "Dashboard"
     THEN {a \in mapped : a.status # RECHAZADO}
     ELSE mapped

\* the message a page shows for a thrown wrapper error
StatusErrorMessage(err) ==
  IF Includes(err, APPLICATION_STATUS_ERROR)
  THEN Msg("error", "No se pudo actualizar el estado del postulante.")
  ELSE Msg("error", "verbatim")

\* click on Aceptar / Rechazar: the handler runs up to its await
handleSetStatus(t, app, status) ==
  /\ tab[t].page \in StatusPages /\ tab[t].pc = "idle"
  /\ app \in tab[t].apps
  /\ status \in {ACEPTADO, RECHAZADO}
  /\ ~StatusButtonDisabled(t, app)
  /\ tab' = [tab EXCEPT
       ![t].message = NoMessage,
       ![t].processingId = IF tab[t].page \in {"Dashboard", "Applications"}
                           THEN app.id ELSE @,
       ![t].argApp = app.id, ![t].argStatus = status,
       ![t].prior = "", ![t].accepted = FALSE, ![t].posted = 0,
       ![t].outcome = "none", ![t].err = <<>>,
       ![t].pc = "await_setApplicationStatus"]
  /\ UNCHANGED storeVars

\* (a status handler that takes one slot of the job on acceptance)
JobsAfterStatus_decrement(applicationId, status) ==
  IF status = ACEPTADO /\ \E a \in applications : a.id = applicationId
  THEN {IF j.id = AppRow(applicationId).job_id /\ ~IsNull(j.available_slots)
        THEN [j EXCEPT !.available_slots = Some(@[1] - 1)] ELSE j : j \in jobs}
  ELSE jobs

\* the jobs table after a status handler: none of the handlers writes to it
JobsAfterStatus(applicationId, status) == jobs

\* await setApplicationStatus(...) returns; the handler runs to its end,
\* or on the applications page to the fetch of the notification endpoint
handleSetStatus_setApplicationStatus(t, fail) ==
  /\ tab[t].pc = "await_setApplicationStatus"
  /\ LET id == tab[t].argApp
         status == tab[t].argStatus
         err == setApplicationStatusError(fail)
         notify == tab[t].page = "Applications" /\ status = ACEPTADO
     IN
     /\ applications' = setApplicationStatus(id, status, fail)
     /\ IF err = <<>>
        THEN tab' = [tab EXCEPT
               ![t].apps = ViewAfterStatus(t, id, status),
               ![t].prior = StoredStatus(id),
               ![t].accepted = (status = ACEPTADO),
               ![t].outcome = "ok",
               ![t].posted = IF notify THEN 1 ELSE 0,
               ![t].message = IF notify THEN @
                              ELSE Msg("success", "Estado del postulante actualizado."),
               ![t].processingId = IF notify THEN @ ELSE 0,
               ![t].pc = IF notify THEN "await_fetch" ELSE "idle"]
        ELSE tab' = [tab EXCEPT
               ![t].outcome = "error",
               ![t].err = err,
               ![t].message = StatusErrorMessage(err),
               ![t].processingId = 0,
               ![t].pc = "idle"]
  /\ jobs' = JobsAfterStatus(tab[t].argApp, tab[t].argStatus)
  /\ UNCHANGED <<messages, nextJobId, nextAppId, nextMsgId, statusDefault, accountVars, outbox>>

\* POST /api/notifications/application-accepted: the responses the route
\* can give for an application id.  "ok" is the 200 body
\* {applicationId, studentEmail}, which needs the application row.
NotificationResponses(applicationId) ==
  {"not_ok", "throw"} \cup
  (IF \E a \in applications : a.id = applicationId THEN {"ok"} ELSE {})

\* (a failed notification reported as an error)
NotificationMessage_error(response) ==
  IF response = "ok" THEN Msg("success", "Estado actualizado. Se notifico a")
  ELSE Msg("error", "No se pudo enviar la notificacion.")

\* the message the applications page shows for a response of the endpoint
NotificationMessage(response) ==
  CASE response = "ok"     -> Msg("success", "Estado actualizado. Se notifico a")
    [] response = "not_ok" ->
         Msg("success", "Estado actualizado, pero no se pudo enviar la notificacion por correo.")
    [] OTHER ->
         Msg("success", "Estado actualizado, pero hubo un error al enviar la notificacion.")

\* await fetch(...) returns or throws
handleSetStatus_fetch(t, response) ==
  /\ tab[t].pc = "await_fetch"
  /\ response \in NotificationResponses(tab[t].argApp)
  /\ tab' = [tab EXCEPT
       ![t].outcome = response,
       ![t].message = NotificationMessage(response),
       ![t].processingId = 0,
       ![t].pc = "idle"]
  /\ UNCHANGED storeVars

\* click on Aceptar / Rechazar of a row while a run of the handler is at an
\* await: the buttons of the page are live whenever their `disabled` is
\* false, so a second run starts
handleSetStatus_again(t, app, status) ==
  /\ tab[t].page \in StatusPages
  /\ tab[t].pc \in {"await_setApplicationStatus", "await_fetch"}
  /\ tab[t].other.pc = "none"
  /\ app \in tab[t].apps
  /\ status \in {ACEPTADO, RECHAZADO}
  /\ ~StatusButtonDisabled(t, app)
  /\ tab' = [tab EXCEPT
       ![t].message = NoMessage,
       ![t].processingId = IF tab[t].page \in {"Dashboard", "Applications"}
                           THEN app.id ELSE @,
       ![t].other = [pc |-> "await_setApplicationStatus",
                     argApp |-> app.id, argStatus |-> status]]
  /\ UNCHANGED storeVars

\* await setApplicationStatus(...) of the second run returns
handleSetStatus_again_setApplicationStatus(t, fail) ==
  /\ tab[t].other.pc = "await_setApplicationStatus"
  /\ LET id == tab[t].other.argApp
         status == tab[t].other.argStatus
         err == setApplicationStatusError(fail)
         notify == tab[t].page = "Applications" /\ status = ACEPTADO
     IN
     /\ applications' = setApplicationStatus(id, status, fail)
     /\ IF err = <<>>
        THEN tab' = [tab EXCEPT
               ![t].apps = ViewAfterStatus(t, id, status),
               ![t].message = IF notify THEN @
                              ELSE Msg("success", "Estado del postulante actualizado."),
               ![t].processingId = IF notify THEN @ ELSE 0,
               ![t].other = IF notify THEN [@ EXCEPT !.pc = "await_fetch"] ELSE NoCall]
        ELSE tab' = [tab EXCEPT
               ![t].message = StatusErrorMessage(err),
               ![t].processingId = 0,
               ![t].other = NoCall]
  /\ jobs' = JobsAfterStatus(tab[t].other.argApp, tab[t].other.argStatus)
  /\ UNCHANGED <<messages, nextJobId, nextAppId, nextMsgId, statusDefault, accountVars, outbox>>

\* await fetch(...) of the second run returns or throws
handleSetStatus_again_fetch(t, response) ==
  /\ tab[t].other.pc = "await_fetch"
  /\ response \in NotificationResponses(tab[t].other.argApp)
  /\ tab' = [tab EXCEPT
       ![t].message = NotificationMessage(response),
       ![t].processingId = 0,
       ![t].other = NoCall]
  /\ UNCHANGED storeVars

----------------------------------------------------------------------------
(* Creating a job *)

JobStatuses == {ABIERTA, CERRADA}

\* the row the store keeps for an insert payload: an explicit null in the
\* payload is stored as NULL, the column default is not applied
NewJob(recruiterId, status, slots) ==
  [id |-> nextJobId, recruiter_id |-> recruiterId, status |-> status,
   available_slots |-> slots]

\* after router.push(`/dashboard/recruiter/jobs/${id}`): the detail page of
\* the new job mounts and loads
PushedToJobDetail(id, supplied) ==
  [IdleTab EXCEPT !.page = "JobDetail", !.pc = "load_jobs", !.argJob = id,
                  !.argSlots = supplied, !.outcome = "created"]

\* jobService.createJob(input), called with or without availableSlots
createJob(t, availableSlots) ==
  /\ t \in RecruiterTabs /\ tab[t].pc = "idle" /\ tab[t].page = "none"
  /\ availableSlots \in SlotInputs
  /\ tab' = [tab EXCEPT ![t].argSlots = availableSlots, ![t].outcome = "none",
                        ![t].err = <<>>, ![t].pc = "await_createJob"]
  /\ UNCHANGED storeVars

createJob_insert(t, fail) ==
  /\ tab[t].pc = "await_createJob"
  /\ fail \/ nextJobId <= MaxJobs
  /\ IF fail
     THEN /\ tab' = [tab EXCEPT ![t].outcome = "error", ![t].err = createJobError(fail),
                                   ![t].pc = "idle"]
          /\ UNCHANGED <<jobs, nextJobId>>
     ELSE /\ jobs' = jobs \cup {NewJob(UserOf(t), ABIERTA, createJobSlots(tab[t].argSlots))}
          /\ nextJobId' = nextJobId + 1
          /\ tab' = [tab EXCEPT ![t].argJob = nextJobId, ![t].outcome = "created",
                                ![t].pc = "idle"]
  /\ UNCHANGED <<applications, messages, nextAppId, nextMsgId, statusDefault, accountVars, outbox>>

\* CreateJobPage.handleCreateJob: the form has no slots field
handleCreateJob(t) ==
  /\ tab[t].page = "CreateJob" /\ tab[t].pc = "idle"
  /\ tab' = [tab EXCEPT ![t].message = NoMessage, ![t].argSlots = NULL,
                        ![t].outcome = "none", ![t].pc = "await_insert_job"]
  /\ UNCHANGED storeVars

handleCreateJob_insert(t, fail) ==
  /\ tab[t].pc = "await_insert_job" /\ tab[t].page = "CreateJob"
  /\ fail \/ nextJobId <= MaxJobs
  /\ IF fail
     THEN /\ tab' = [tab EXCEPT ![t].outcome = "error",
                 ![t].message = Msg("error", "No se pudo crear la vacante."),
                 ![t].pc = "idle"]
          /\ UNCHANGED <<jobs, nextJobId>>
     ELSE /\ jobs' = jobs \cup {NewJob(UserOf(t), ABIERTA, Some(1))}
          /\ nextJobId' = nextJobId + 1
          /\ tab' = [tab EXCEPT ![t] = PushedToJobDetail(nextJobId, NULL)]
  /\ UNCHANGED <<applications, messages, nextAppId, nextMsgId, statusDefault, accountVars, outbox>>

\* JobDetailPage.handleSaveJobInfo, create branch: `slotsValue`
slotsValue(newSlots) == IF IsNull(newSlots) THEN NULL ELSE Some(newSlots[1])

\* JobDetailPage.handleSaveJobInfo on /dashboard/recruiter/jobs/new
handleSaveJobInfo_new(t, status) ==
  /\ tab[t].page = "JobNew" /\ tab[t].pc = "idle"
  /\ status \in JobStatuses
  /\ tab' = [tab EXCEPT ![t].message = NoMessage, ![t].argStatus = status,
                        ![t].argSlots = tab[t].newSlots,
                        ![t].outcome = "none", ![t].pc = "await_insert_job"]
  /\ UNCHANGED storeVars

handleSaveJobInfo_insert(t, fail) ==
  /\ tab[t].pc = "await_insert_job" /\ tab[t].page = "JobNew"
  /\ fail \/ nextJobId <= MaxJobs
  /\ IF fail
     THEN /\ tab' = [tab EXCEPT ![t].outcome = "error",
                 ![t].message = Msg("error", "No se pudo crear la vacante."),
                 ![t].pc = "idle"]
          /\ UNCHANGED <<jobs, nextJobId>>
     ELSE /\ jobs' = jobs \cup
                 {NewJob(UserOf(t), tab[t].argStatus, slotsValue(tab[t].newSlots))}
          /\ nextJobId' = nextJobId + 1
          /\ tab' = [tab EXCEPT ![t] = PushedToJobDetail(nextJobId, tab[t].newSlots)]
  /\ UNCHANGED <<applications, messages, nextAppId, nextMsgId, statusDefault, accountVars, outbox>>

\* JobDetailPage.handleSaveJobInfo on an existing job: the update leaves
\* available_slots out of its payload
handleSaveJobInfo_edit(t, status) ==
  /\ tab[t].page = "JobDetail" /\ tab[t].pc = "idle" /\ tab[t].jobs # {}
  /\ status \in JobStatuses
  /\ tab' = [tab EXCEPT ![t].message = NoMessage, ![t].argStatus = status,
                        ![t].outcome = "none", ![t].pc = "await_update_job"]
  /\ UNCHANGED storeVars

handleSaveJobInfo_update(t, fail) ==
  /\ tab[t].pc = "await_update_job"
  /\ IF fail
     THEN /\ tab' = [tab EXCEPT ![t].outcome = "error",
                 ![t].message = Msg("error", "No se pudo actualizar la informacion de la vacante."),
                 ![t].pc = "idle"]
          /\ UNCHANGED jobs
     ELSE /\ jobs' = {IF j.id = tab[t].argJob THEN [j EXCEPT !.status = tab[t].argStatus] ELSE j :
                        j \in jobs}
          /\ tab' = [tab EXCEPT ![t].outcome = "ok",
                 ![t].jobs = {[j EXCEPT !.status = tab[t].argStatus] : j \in @},
                 ![t].message = Msg("success", "Informacion de la vacante actualizada correctamente."),
                 ![t].pc = "idle"]
  /\ UNCHANGED <<applications, messages, nextJobId, nextAppId, nextMsgId, statusDefault, accountVars, outbox>>

----------------------------------------------------------------------------
(* JobDetailPage.handleUpdateSlots *)

\* `typeof newSlots === "number" ? newSlots : Number(newSlots)`: the empty
\* field converts to 0
SlotsNumber(newSlots) == IF IsNull(newSlots) THEN 0 ELSE newSlots[1]

\* the recruiter leaves `typed` in the slots input and clicks the button
handleUpdateSlots(t, typed) ==
  /\ tab[t].page = "JobDetail" /\ tab[t].pc = "idle" /\ tab[t].jobs # {}
  /\ typed \in SlotInputs
  /\ tab' = [tab EXCEPT ![t].newSlots = typed, ![t].message = NoMessage,
                        ![t].argSlots = Some(SlotsNumber(typed)),
                        ![t].outcome = "none", ![t].err = <<>>,
                        ![t].pc = "await_updateJobAvailability"]
  /\ UNCHANGED storeVars

handleUpdateSlots_updateJobAvailability(t, fail) ==
  /\ tab[t].pc = "await_updateJobAvailability"
  /\ LET err == updateJobAvailabilityError(fail)
         slots == tab[t].argSlots[1]
     IN
     /\ jobs' = updateJobAvailability(tab[t].argJob, slots, fail)
     /\ IF err = <<>>
        THEN tab' = [tab EXCEPT
               ![t].jobs = {[j EXCEPT !.available_slots = Some(slots)] : j \in @},
               ![t].outcome = "ok",
               ![t].message = Msg("success", "Disponibilidad actualizada."),
               ![t].pc = "idle"]
        ELSE tab' = [tab EXCEPT
               ![t].outcome = "error",
               ![t].err = err,
               ![t].message =
                 IF Includes(err, JOB_AVAILABILITY_ERROR)
                 THEN Msg("error", "No se pudo actualizar la disponibilidad.")
                 ELSE Msg("error", "verbatim"),
               ![t].pc = "idle"]
  /\ UNCHANGED <<applications, messages, nextJobId, nextAppId, nextMsgId, statusDefault, accountVars, outbox>>

----------------------------------------------------------------------------
(* Recruiter dashboards: handleDeleteJob *)

\* (the store without the foreign key of applications.job_id)
DeleteJobRefused_unreferenced(jobId, fail) == fail

\* supabase.from("jobs").delete().eq("id", jobId): the store refuses to
\* delete a row that applications reference
DeleteJobRefused(jobId, fail) == fail \/ ForeignKeyReferenced(jobId)

DeleteJob(jobId, fail) ==
  IF DeleteJobRefused(jobId, fail) THEN jobs ELSE {j \in jobs : j.id # jobId}

\* supabase.from("applications").delete().eq("job_id", jobId)
\*   [.not("id", "eq", keepId)]; keepId = 0 stands for no keepId
\* (a delete without the filter on the job)
DeleteApplications_everyJob(jobId, keepId, fail) ==
  IF fail THEN applications
  ELSE {a \in applications : a.id = keepId}

\* delete().eq("job_id", jobId), with .not("id", "eq", keepId) when a
\* keepId was entered (0 stands for none)
DeleteApplications(jobId, keepId, fail) ==
  IF fail THEN applications
  ELSE {a \in applications : ~(a.job_id = jobId /\ a.id # keepId)}

\* click on the delete button of a job row, and OK in the confirm dialog
handleDeleteJob(t, job) ==
  /\ tab[t].page \in {"Dashboard", "Dashboard2"} /\ tab[t].pc = "idle"
  /\ job \in tab[t].jobs
  /\ tab' = [tab EXCEPT ![t].message = NoMessage, ![t].argJob = job.id,
                        ![t].outcome = "none", ![t].pc = "await_delete_job"]
  /\ UNCHANGED storeVars

handleDeleteJob_deleteJob(t, fail) ==
  /\ tab[t].pc = "await_delete_job"
  /\ jobs' = DeleteJob(tab[t].argJob, fail)
  /\ IF DeleteJobRefused(tab[t].argJob, fail)
     THEN tab' = [tab EXCEPT
            ![t].outcome = "error",
            ![t].message = Msg("error", "No fue posible eliminar la vacante. Intenta de nuevo."),
            ![t].pc = "idle"]
     ELSE IF tab[t].page = "Dashboard"
     THEN tab' = [tab EXCEPT ![t].pc = "await_delete_job_applications"]
     ELSE tab' = [tab EXCEPT
            ![t].jobs = {j \in @ : j.id # tab[t].argJob},
            ![t].outcome = "deleted",
            ![t].message = Msg("success", "Vacante eliminada correctamente."),
            ![t].pc = "idle"]
  /\ UNCHANGED <<applications, messages, nextJobId, nextAppId, nextMsgId, statusDefault, accountVars, outbox>>

\* the first dashboard then deletes the job's applications; an error of
\* this second delete is only logged
handleDeleteJob_deleteApplications(t, fail) ==
  /\ tab[t].pc = "await_delete_job_applications"
  /\ applications' = DeleteApplications(tab[t].argJob, 0, fail)
  /\ tab' = [tab EXCEPT
       ![t].jobs = {j \in @ : j.id # tab[t].argJob},
       ![t].apps = {a \in @ : a.job_id # tab[t].argJob},
       ![t].outcome = "deleted",
       ![t].message = Msg("success", "Vacante eliminada correctamente."),
       ![t].pc = "idle"]
  /\ UNCHANGED <<jobs, messages, nextJobId, nextAppId, nextMsgId, statusDefault, accountVars, outbox>>

----------------------------------------------------------------------------
(* First recruiter dashboard: handleChangeJobStatus *)

\* the status select of a job row shows `job.status || "ABIERTA"`; onChange
\* fires with the other value
handleChangeJobStatus(t, job, newStatus) ==
  /\ tab[t].page = "Dashboard" /\ tab[t].pc = "idle"
  /\ job \in tab[t].jobs
  /\ newStatus \in JobStatuses /\ newStatus # job.status
  /\ tab' = [tab EXCEPT ![t].message = NoMessage, ![t].argJob = job.id,
                        ![t].argStatus = newStatus, ![t].argApp = 0,
                        ![t].prior = "", ![t].outcome = "none",
                        ![t].pc = "await_update_job_status"]
  /\ UNCHANGED storeVars

\* the update returns; for CERRADA the recruiter answers the confirm
\* dialog and, when confirmed, the prompt for the id to keep
handleChangeJobStatus_update(t, fail, confirmClose, keepId) ==
  /\ tab[t].pc = "await_update_job_status"
  /\ keepId \in 0..MaxApps
  /\ LET id == tab[t].argJob
         newStatus == tab[t].argStatus
     IN
     IF fail
     THEN /\ tab' = [tab EXCEPT
                 ![t].outcome = "error",
                 ![t].message = Msg("error", "No se pudo actualizar el estado de la vacante."),
                 ![t].pc = "idle"]
          /\ UNCHANGED jobs
     ELSE /\ jobs' = {IF j.id = id THEN [j EXCEPT !.status = newStatus] ELSE j : j \in jobs}
          /\ tab' = [tab EXCEPT
                 ![t].jobs = {IF j.id = id THEN [j EXCEPT !.status = newStatus] ELSE j : j \in @},
                 ![t].prior = IF id \in JobIds THEN JobRow(id).status ELSE "",
                 ![t].outcome = "ok",
                 ![t].argApp = IF newStatus = CERRADA /\ confirmClose THEN keepId ELSE 0,
                 ![t].pc = IF newStatus = CERRADA /\ confirmClose
                           THEN "await_delete_closed_applications" ELSE "idle"]
  /\ UNCHANGED <<applications, messages, nextJobId, nextAppId, nextMsgId, statusDefault, accountVars, outbox>>

handleChangeJobStatus_deleteApplications(t, fail) ==
  /\ tab[t].pc = "await_delete_closed_applications"
  /\ LET id == tab[t].argJob
         keepId == tab[t].argApp
     IN
     /\ applications' = DeleteApplications(id, keepId, fail)
     /\ IF fail
        THEN tab' = [tab EXCEPT
               ![t].outcome = "error",
               ![t].message = Msg("error", "No se pudo actualizar el estado de la vacante."),
               ![t].pc = "idle"]
        ELSE tab' = [tab EXCEPT
               ![t].apps = {a \in @ : a.id = keepId \/ a.job_id # id},
               ![t].outcome = "closed",
               ![t].message = IF keepId # 0
                              THEN Msg("success", "Vacante cerrada. Se conservo la postulacion")
                              ELSE Msg("success", "Vacante cerrada. Se eliminaron las postulaciones asociadas."),
               ![t].pc = "idle"]
  /\ UNCHANGED <<jobs, messages, nextJobId, nextAppId, nextMsgId, statusDefault, accountVars, outbox>>

----------------------------------------------------------------------------
(* Recruiter messages page *)

\* the conversations of the page: the distinct (student, job) pairs of the
\* applications it loaded
MessagePages == {"Messages", "StudentMessages"}

\* the recruiter id embedded in an application's job ("" when the embed is
\* missing)
EmbeddedRecruiter(t, jobId) ==
  IF \E j \in tab[t].jobs : j.id = jobId
  THEN (CHOOSE j \in tab[t].jobs : j.id = jobId).recruiter_id ELSE ""

\* convMap: the recruiter page keys by student_id::job_id, the student page
\* by job_id::recruiter_id; a conversation is <<counterpart, job_id>>
Conversations(t) ==
  IF tab[t].page = "StudentMessages"
  THEN {<<EmbeddedRecruiter(t, a.job_id), a.job_id>> : a \in tab[t].apps}
  ELSE {<<a.student_id, a.job_id>> : a \in tab[t].apps}

\* (recruiter_id, student_id, job_id) of a conversation of tab t
Triple(t, conv) ==
  IF t \in StudentTabs THEN <<conv[1], UserOf(t), conv[2]>>
  ELSE <<UserOf(t), conv[1], conv[2]>>

\* (the rows in descending order)
RECURSIVE SortedById_descending(_)
SortedById_descending(rows) ==
  IF rows = {} THEN <<>>
  ELSE LET last == CHOOSE m \in rows : \A n \in rows : m.id >= n.id
       IN <<last>> \o SortedById_descending(rows \ {last})

\* .order("created_at", { ascending: true }): created_at is now() at the
\* insert, so the rows come in the order of their serial ids
RECURSIVE SortedById(_)
SortedById(rows) ==
  IF rows = {} THEN <<>>
  ELSE LET first == CHOOSE m \in rows : \A n \in rows : m.id <= n.id
       IN <<first>> \o SortedById(rows \ {first})

ConversationRows(t, conv) ==
  {m \in messages : /\ m.recruiter_id = Triple(t, conv)[1]
                    /\ m.student_id = Triple(t, conv)[2]
                    /\ m.job_id = Triple(t, conv)[3]}

\* click on a conversation: runs up to the await of the select.  The list
\* of conversations stays clickable while a load is in flight.
loadConversationMessages(t, conv) ==
  /\ tab[t].page \in MessagePages /\ tab[t].pc = "idle"
  /\ conv \in Conversations(t)
  /\ tab' = [tab EXCEPT ![t].selected = conv, ![t].message = NoMessage,
                        ![t].loadingMessages = TRUE,
                        ![t].inflight = @ \cup {conv}]
  /\ UNCHANGED storeVars

\* the select of a load in flight returns
loadConversationMessages_select(t, conv, fail) ==
  /\ conv \in tab[t].inflight
  /\ tab' = [tab EXCEPT
       ![t].msgs = IF ~fail THEN SortedById(ConversationRows(t, conv))
                   ELSE IF tab[t].page = "StudentMessages" THEN <<>> ELSE @,
       ![t].message = IF fail THEN Msg("error", "No fue posible cargar los mensajes.") ELSE @,
       ![t].loadingMessages = FALSE,
       ![t].outcome = IF fail THEN "error" ELSE "loaded",
       ![t].inflight = @ \ {conv}]
  /\ UNCHANGED storeVars

\* (a realtime subscription that pushes an inserted row to the other tabs
\* showing its conversation)
Delivered_realtime(t, row) ==
  {u \in Tabs \ {t} :
     /\ tab[u].page \in MessagePages /\ tab[u].selected # <<>>
     /\ Triple(u, tab[u].selected) = <<row.recruiter_id, row.student_id, row.job_id>>}

\* the other tabs an inserted row is pushed to: neither page opens a
\* channel or polls, so none
Delivered(t, row) == {}

\* submit of the message form: the payload is built from the conversation
\* selected now
handleSendMessage(t) ==
  /\ tab[t].page \in MessagePages /\ tab[t].pc = "idle"
  /\ tab[t].selected # <<>> /\ tab[t].sending = <<>>
  /\ tab' = [tab EXCEPT ![t].message = NoMessage, ![t].sending = tab[t].selected]
  /\ UNCHANGED storeVars

handleSendMessage_insert(t, fail) ==
  /\ tab[t].sending # <<>>
  /\ fail \/ nextMsgId <= MaxMsgs
  /\ LET triple == Triple(t, tab[t].sending)
         row == [id |-> nextMsgId, recruiter_id |-> triple[1],
                 student_id |-> triple[2], job_id |-> triple[3],
                 sender_type |-> IF t \in StudentTabs THEN "STUDENT" ELSE "RECRUITER"]
     IN
     IF fail
     THEN /\ tab' = [tab EXCEPT
                 ![t].message = Msg("error", "No fue posible enviar el mensaje."),
                 ![t].outcome = "error",
                 ![t].sending = <<>>]
          /\ UNCHANGED <<messages, nextMsgId>>
     ELSE /\ messages' = messages \cup {row}
          /\ nextMsgId' = nextMsgId + 1
          /\ tab' = [u \in Tabs |->
                 IF u = t
                 THEN [tab[t] EXCEPT
                         !.msgs = Append(@, row),
                         !.message = IF tab[t].page = "StudentMessages"
                                     THEN Msg("success", "Mensaje enviado.") ELSE @,
                         !.outcome = "sent",
                         !.sending = <<>>]
                 ELSE IF u \in Delivered(t, row)
                      THEN [tab[u] EXCEPT !.msgs = Append(@, row)]
                      ELSE tab[u]]
  /\ UNCHANGED <<jobs, applications, nextJobId, nextAppId, statusDefault, accountVars, outbox>>

----------------------------------------------------------------------------
(* Registration: studentService.registerStudent, recruiterService.         *)
(* registerRecruiter and the two registration pages                         *)

AUTH_ERROR             == "AUTH_ERROR: "
STUDENT_INSERT_ERROR   == "STUDENT_INSERT_ERROR: "
RECRUITER_INSERT_ERROR == "RECRUITER_INSERT_ERROR: "

Emails      == {"e1", "e2"}
Enrollments == {"b1", "b3"}

\* the id the auth service gives the next account
NewUserId == <<"u1", "u2", "u3", "u4">>[nextUserId]

\* supabase.auth.signUp answers with an error, with no error and no user,
\* or with the user it created
SignUpResults == {"error", "no_user", "ok"}

\* the error of step 1 of registerStudent / registerRecruiter: thrown
\* outside any try, so the prefix stands once
signUpError(result) ==
  CASE result = "error"   -> <<AUTH_ERROR, "auth error">>
    [] result = "no_user" -> <<AUTH_ERROR, "no user id returned after signUp">>
    [] OTHER              -> <<>>

\* the auth service keeps one account per email: a sign-up with the email
\* of an account does not create another
EmailTaken(email) == \E u \in users : u.email = email

\* students.enrollment_number is unique
EnrollmentTaken(enrollmentNumber) ==
  \E s \in students : s.enrollment_number = enrollmentNumber

\* the store refuses the insert of the profile row
InsertRefused(page, enrollmentNumber, fail) ==
  fail \/ (page = "RegisterStudent" /\ EnrollmentTaken(enrollmentNumber))

\* (a service that does not look at the error of the insert)
profileInsertError_swallowed(page, enrollmentNumber, fail) == <<>>

\* the error of step 2: the insert of the profile row
profileInsertError(page, enrollmentNumber, fail) ==
  IF ~InsertRefused(page, enrollmentNumber, fail) THEN <<>>
  ELSE IF page = "RegisterStudent"
  THEN IF fail THEN <<STUDENT_INSERT_ERROR, "store error">>
       ELSE <<STUDENT_INSERT_ERROR, "duplicate key value violates unique constraint">>
  ELSE <<RECRUITER_INSERT_ERROR, "store error">>

\* the catch of RegisterStudentPage.handleSubmit translates the domain
\* errors; the catch of RegisterRecruiterPage.handleSubmit shows the text
\* of the error as it is
RegisterErrorMessage(page, err) ==
  IF page = "RegisterStudent"
  THEN IF Includes(err, STUDENT_INSERT_ERROR)
       THEN Msg("error", "No se pudo guardar el perfil de estudiante. Intenta de nuevo.")
       ELSE IF Includes(err, AUTH_ERROR)
            THEN Msg("error", "No se pudo crear la cuenta de acceso.")
       ELSE Msg("error", "verbatim")
  ELSE Msg("error", "verbatim")

\* the text of the thrown error a page puts on the screen unchanged
RegisterVerbatim(page, err) ==
  IF page = "RegisterStudent"
  THEN IF Includes(err, STUDENT_INSERT_ERROR) \/ Includes(err, AUTH_ERROR) THEN <<>> ELSE err
  ELSE err

\* handleSubmit of both registration pages up to the call of the service;
\* `complete` says whether the form passes the page's validation
handleSubmit(t, email, enrollmentNumber, complete) ==
  /\ tab[t].page \in {"RegisterStudent", "RegisterRecruiter"} /\ tab[t].pc = "idle"
  /\ tab' = [tab EXCEPT
       ![t].email = email,
       ![t].enrollmentNumber = IF tab[t].page = "RegisterStudent" THEN enrollmentNumber ELSE "",
       ![t].err = <<>>, ![t].verbatim = <<>>, ![t].userId = "",
       ![t].outcome = IF complete THEN "none" ELSE "invalid",
       ![t].message = IF complete THEN NoMessage ELSE Msg("error", "validation"),
       ![t].pc = IF complete THEN "await_signUp" ELSE "idle"]
  /\ UNCHANGED storeVars

\* registerStudent / registerRecruiter, step 1: the auth account
register_signUp(t, result) ==
  /\ tab[t].pc = "await_signUp"
  /\ result = "ok" => nextUserId <= MaxUsers /\ ~EmailTaken(tab[t].email)
  /\ LET err == signUpError(result) IN
     IF err = <<>>
     THEN /\ users' = users \cup {[id |-> NewUserId, email |-> tab[t].email]}
          /\ nextUserId' = nextUserId + 1
          /\ tab' = [tab EXCEPT ![t].userId = NewUserId, ![t].pc = "await_insertProfile"]
     ELSE /\ tab' = [tab EXCEPT
                ![t].outcome = "error", ![t].err = err,
                ![t].verbatim = RegisterVerbatim(tab[t].page, err),
                ![t].message = RegisterErrorMessage(tab[t].page, err),
                ![t].pc = "idle"]
          /\ UNCHANGED <<users, nextUserId>>
  /\ UNCHANGED <<jobs, applications, messages, nextJobId, nextAppId, nextMsgId,
                 statusDefault, students, recruiters, outbox>>

\* registerStudent / registerRecruiter, step 2: the profile row with the id
\* of the auth account; on success the page goes to /login
register_insert(t, fail) ==
  /\ tab[t].pc = "await_insertProfile"
  /\ LET err == profileInsertError(tab[t].page, tab[t].enrollmentNumber, fail)
         refused == InsertRefused(tab[t].page, tab[t].enrollmentNumber, fail)
     IN
     /\ students' = IF refused \/ tab[t].page # "RegisterStudent" THEN students
                    ELSE students \cup {[id |-> tab[t].userId,
                                         enrollment_number |-> tab[t].enrollmentNumber]}
     /\ recruiters' = IF refused \/ tab[t].page # "RegisterRecruiter" THEN recruiters
                      ELSE recruiters \cup {[id |-> tab[t].userId]}
     /\ IF err = <<>>
        THEN tab' = [tab EXCEPT
                ![t].outcome = "registered",
                ![t].message = IF tab[t].page = "RegisterRecruiter"
                               THEN Msg("success", "Cuenta creada correctamente.")
                               ELSE NoMessage,
                ![t].page = "Login", ![t].pc = "idle"]
        ELSE tab' = [tab EXCEPT
                ![t].outcome = "error", ![t].err = err,
                ![t].verbatim = RegisterVerbatim(tab[t].page, err),
                ![t].message = RegisterErrorMessage(tab[t].page, err),
                ![t].pc = "idle"]
  /\ UNCHANGED <<jobs, applications, messages, nextJobId, nextAppId, nextMsgId,
                 statusDefault, users, nextUserId, outbox>>

----------------------------------------------------------------------------
(* StudentDashboardPage: the metrics the page computes from the            *)
(* applications it loaded                                                   *)

totalApplications(t) == Cardinality(tab[t].apps)
accepted(t) == Cardinality({a \in tab[t].apps : a.status = ACEPTADO})
rejected(t) == Cardinality({a \in tab[t].apps : a.status = RECHAZADO})
pending(t)  == Cardinality({a \in tab[t].apps : a.status = PENDIENTE})

----------------------------------------------------------------------------
(* LoginPage.handleLogin.  tab[t].session is the session the auth client  *)
(* of the browser holds: the id of the signed-in account, "" for none      *)

Modes == {"student", "recruiter"}

\* supabase.auth.signInWithPassword answers with an error, with no user,
\* with the user it signed in, or throws
SignInResults == {"error", "no_user", "ok", "throw"}

\* the account of an email
AccountOf(email) == CHOOSE u \in users : u.email = email

\* the profile row the page looks up for the mode: .eq("id", user.id)
ProfileRows(mode, userId) ==
  IF mode = "recruiter" THEN {r \in recruiters : r.id = userId}
  ELSE {st \in students : st.id = userId}

\* the form is submitted; `complete` says whether email and password are
\* filled in
handleLogin(t, mode, email, complete) ==
  /\ tab[t].page = "Login" /\ tab[t].pc = "idle"
  /\ tab' = [tab EXCEPT
       ![t].mode = mode, ![t].email = email,
       ![t].outcome = IF complete THEN "none" ELSE "invalid",
       ![t].message = IF complete THEN NoMessage
                      ELSE Msg("error", "Por favor ingresa correo y contrasena."),
       ![t].pc = IF complete THEN "await_signIn" ELSE "idle"]
  /\ UNCHANGED storeVars

\* 1) signInWithPassword returns: on success the client holds the session
handleLogin_signIn(t, result) ==
  /\ tab[t].pc = "await_signIn"
  /\ result \in SignInResults
  /\ result = "ok" => EmailTaken(tab[t].email)
  /\ tab' = [tab EXCEPT ![t] =
       CASE result = "ok" ->
              [@ EXCEPT !.session = AccountOf(tab[t].email).id, !.pc = "await_profile"]
         [] result = "error" ->
              [@ EXCEPT !.outcome = "error", !.pc = "idle",
                        !.message = IF tab[t].mode = "recruiter"
                                    THEN Msg("error", "Credenciales incorrectas para Reclutador.")
                                    ELSE Msg("error", "Credenciales incorrectas.")]
         [] result = "no_user" ->
              [@ EXCEPT !.outcome = "error", !.pc = "idle",
                        !.message = Msg("error", "No se pudo obtener el usuario autenticado.")]
         [] OTHER ->
              [@ EXCEPT !.outcome = "error", !.pc = "idle",
                        !.message = Msg("error", "Error inesperado al iniciar sesion.")]]
  /\ UNCHANGED storeVars

\* 2) / 3) the profile row of the mode; with it the page goes to the
\* dashboard, without it the handler returns after its error message
handleLogin_profile(t, fail) ==
  /\ tab[t].pc = "await_profile"
  /\ tab' = [tab EXCEPT ![t] =
       IF fail
       THEN [@ EXCEPT !.outcome = "error", !.pc = "idle",
                      !.message = Msg("error", "Ocurrio un error al validar tu perfil.")]
       ELSE IF ProfileRows(tab[t].mode, tab[t].session) = {}
       THEN [@ EXCEPT !.outcome = "error", !.pc = "idle",
                      !.message = Msg("error", "Tu usuario esta registrado, pero no tiene perfil.")]
       ELSE [@ EXCEPT !.outcome = "logged_in", !.pc = "idle",
                      !.page = IF tab[t].mode = "recruiter"
                               THEN "/dashboard/recruiter" ELSE "/dashboard/student"]]
  /\ UNCHANGED storeVars

----------------------------------------------------------------------------
(* POST /api/notifications/application-accepted: the route, one step per    *)
(* await; the request of tab t is tab[t].route                              *)

\* NextResponse.json({error}, {status})
ErrorResponse(r, status) ==
  [r EXCEPT !.pc = "done", !.status = status, !.ok = FALSE, !.body = <<>>]

\* (a route that answers with the success body whatever the provider says)
SendResponse_always_ok(r, result) ==
  [r EXCEPT !.pc = "done", !.attempted = TRUE, !.sendError = (result # "ok"),
            !.status = 200, !.ok = TRUE,
            !.body = <<r.application[1].id, r.studentEmail>>]

\* the response after resend.emails.send: 502 when it reports an error, 500
\* from the catch when it throws, else {ok, applicationId, studentEmail}
SendResponse(r, result) ==
  CASE result = "ok" ->
         [r EXCEPT !.pc = "done", !.attempted = TRUE,
                   !.status = 200, !.ok = TRUE,
                   !.body = <<r.application[1].id, r.studentEmail>>]
    [] result = "error" ->
         [ErrorResponse(r, 502) EXCEPT !.attempted = TRUE, !.sendError = TRUE]
    [] OTHER ->
         [ErrorResponse(r, 500) EXCEPT !.attempted = TRUE, !.sendError = TRUE]

\* the request arrives: req.json() throws, or gives an applicationId
\* (0 stands for a missing one)
POST(t, applicationId, badBody) ==
  /\ tab[t].route.pc \in {"none", "done"}
  /\ tab' = [tab EXCEPT ![t].route =
       IF badBody THEN ErrorResponse(NoRequest, 500)
       ELSE IF applicationId = 0
            THEN ErrorResponse(NoRequest, 400)
            ELSE [NoRequest EXCEPT !.pc = "await_application",
                                   !.applicationId = applicationId]]
  /\ UNCHANGED storeVars

\* 1) the application row
POST_application(t, fail) ==
  /\ tab[t].route.pc = "await_application"
  /\ LET r == tab[t].route
         rows == {a \in applications : a.id = r.applicationId}
     IN tab' = [tab EXCEPT ![t].route =
          IF fail THEN ErrorResponse(r, 500)
          ELSE IF rows = {} THEN ErrorResponse(r, 404)
          ELSE [r EXCEPT !.pc = "await_getUserById",
                         !.application = <<CHOOSE a \in rows : TRUE>>]]
  /\ UNCHANGED storeVars

\* 2) the student's email from the auth accounts
POST_getUserById(t, fail) ==
  /\ tab[t].route.pc = "await_getUserById"
  /\ LET r == tab[t].route
         found == {u \in users : u.id = r.application[1].student_id}
     IN tab' = [tab EXCEPT ![t].route =
          IF fail \/ found = {} \/ (\A u \in found : u.email = "")
          THEN ErrorResponse(r, 500)
          ELSE [r EXCEPT !.pc = "await_job",
                         !.studentEmail = (CHOOSE u \in found : TRUE).email]]
  /\ UNCHANGED storeVars

\* 3) the job's title: an error here is logged and the route goes on
POST_job(t, fail) ==
  /\ tab[t].route.pc = "await_job"
  /\ tab' = [tab EXCEPT ![t].route.pc = "await_send"]
  /\ UNCHANGED storeVars

\* 4) resend.emails.send and the response
POST_send(t, result) ==
  /\ tab[t].route.pc = "await_send"
  /\ result \in {"ok", "error", "throw"}
  /\ result = "ok" => Len(outbox) < MaxMails
  /\ tab' = [tab EXCEPT ![t].route = SendResponse(tab[t].route, result)]
  /\ outbox' = IF result = "ok"
               THEN Append(outbox, [to |-> tab[t].route.studentEmail,
                                    applicationId |-> tab[t].route.application[1].id])
               ELSE outbox
  /\ UNCHANGED <<jobs, applications, messages, nextJobId, nextAppId, nextMsgId,
                 statusDefault, accountVars>>

----------------------------------------------------------------------------
(* Steps of the page controllers, for the tabs T that take part *)

\* the fetch of the applications page reaches the route: the request body
\* is {applicationId} of the application just accepted
handleSetStatus_request(t) ==
  /\ tab[t].pc = "await_fetch"
  /\ tab[t].route.pc = "none"
  /\ tab' = [tab EXCEPT ![t].route =
                [NoRequest EXCEPT !.pc = "await_application",
                                  !.applicationId = tab[t].argApp]]
  /\ UNCHANGED storeVars

\* the response of the route reaches the page: res.ok or not
handleSetStatus_response(t) ==
  /\ tab[t].pc = "await_fetch"
  /\ tab[t].route.pc = "done"
  /\ LET response == IF tab[t].route.ok THEN "ok" ELSE "not_ok" IN
     tab' = [tab EXCEPT
       ![t].outcome = response,
       ![t].message = NotificationMessage(response),
       ![t].processingId = 0,
       ![t].route = NoRequest,
       ![t].pc = "idle"]
  /\ UNCHANGED storeVars

\* the steps of a request inside the route
RouteRun(T) ==
  \/ \E t \in T, fail \in BOOLEAN : POST_application(t, fail)
  \/ \E t \in T, fail \in BOOLEAN : POST_getUserById(t, fail)
  \/ \E t \in T, fail \in BOOLEAN : POST_job(t, fail)
  \/ \E t \in T, result \in {"ok", "error", "throw"} : POST_send(t, result)

RouteStep(T, ids) ==
  \/ \E t \in T, applicationId \in ids, badBody \in BOOLEAN : POST(t, applicationId, badBody)
  \/ RouteRun(T)

LoginStep(T, emails) ==
  \/ \E t \in T, mode \in Modes, email \in emails, complete \in BOOLEAN :
        handleLogin(t, mode, email, complete)
  \/ \E t \in T, result \in SignInResults : handleLogin_signIn(t, result)
  \/ \E t \in T, fail \in BOOLEAN : handleLogin_profile(t, fail)

RegisterStep(T) ==
  \/ \E t \in T, p \in {"RegisterStudent", "RegisterRecruiter"} : OpenPage(t, p, 0)
  \/ \E t \in T, email \in Emails, enrollmentNumber \in Enrollments, complete \in BOOLEAN :
        handleSubmit(t, email, enrollmentNumber, complete)
  \/ \E t \in T, result \in SignUpResults : register_signUp(t, result)
  \/ \E t \in T, fail \in BOOLEAN : register_insert(t, fail)

StudentStep(T) ==
  \/ \E t \in T : OpenPage(t, "JobsPage", 0)
  \/ \E t \in T : \E job \in tab[t].jobs : handleApply(t, job)
  \/ \E t \in T, fail \in BOOLEAN : handleApply_applyToJob(t, fail)
  \/ \E t \in T, fail \in BOOLEAN : handleApply_reloadApplications(t, fail)

LoadStep(T) ==
  \/ \E t \in T, fail \in BOOLEAN : LoadJobs(t, fail)
  \/ \E t \in T, fail \in BOOLEAN : LoadApps(t, fail)

OpenStep(T, pages, ids) ==
  \E t \in T, p \in pages, id \in ids : OpenPage(t, p, id)

StatusStep(T) ==
  \/ \E t \in T : \E app \in tab[t].apps, status \in {ACEPTADO, RECHAZADO} :
        handleSetStatus(t, app, status)
  \/ \E t \in T, fail \in BOOLEAN : handleSetStatus_setApplicationStatus(t, fail)
  \/ \E t \in T, response \in {"ok", "not_ok", "throw"} : handleSetStatus_fetch(t, response)

\* a second run of the status handler next to the first
AgainStep(T) ==
  \/ \E t \in T : \E app \in tab[t].apps, status \in {ACEPTADO, RECHAZADO} :
        handleSetStatus_again(t, app, status)
  \/ \E t \in T, fail \in BOOLEAN : handleSetStatus_again_setApplicationStatus(t, fail)
  \/ \E t \in T, response \in {"ok", "not_ok", "throw"} :
        handleSetStatus_again_fetch(t, response)

\* the status handler of a page without the notification
DetailStatusStep(T) ==
  \/ \E t \in T : \E app \in tab[t].apps, status \in {ACEPTADO, RECHAZADO} :
        handleSetStatus(t, app, status)
  \/ \E t \in T, fail \in BOOLEAN : handleSetStatus_setApplicationStatus(t, fail)

\* the applications page with its fetch going through the route
NotifiedStatusStep(T) ==
  \/ DetailStatusStep(T)
  \/ \E t \in T : handleSetStatus_request(t)
  \/ \E t \in T : handleSetStatus_response(t)
  \/ RouteRun(T)

CreateStep(T, inputs) ==
  \/ \E t \in T, n \in inputs : createJob(t, n)
  \/ \E t \in T, fail \in BOOLEAN : createJob_insert(t, fail)
  \/ \E t \in T : handleCreateJob(t)
  \/ \E t \in T, fail \in BOOLEAN : handleCreateJob_insert(t, fail)
  \/ \E t \in T, st \in JobStatuses : handleSaveJobInfo_new(t, st)
  \/ \E t \in T, fail \in BOOLEAN : handleSaveJobInfo_insert(t, fail)

\* the form of /dashboard/recruiter/jobs/new alone
SaveNewStep(T) ==
  \/ \E t \in T : handleSaveJobInfo_new(t, ABIERTA)
  \/ \E t \in T, fail \in BOOLEAN : handleSaveJobInfo_insert(t, fail)

SlotsStep(T, inputs) ==
  \/ \E t \in T, typed \in inputs : handleUpdateSlots(t, typed)
  \/ \E t \in T, fail \in BOOLEAN : handleUpdateSlots_updateJobAvailability(t, fail)

EditStep(T) ==
  \/ \E t \in T, st \in JobStatuses : handleSaveJobInfo_edit(t, st)
  \/ \E t \in T, fail \in BOOLEAN : handleSaveJobInfo_update(t, fail)

DeleteStep(T) ==
  \/ \E t \in T : \E job \in tab[t].jobs : handleDeleteJob(t, job)
  \/ \E t \in T, fail \in BOOLEAN : handleDeleteJob_deleteJob(t, fail)
  \/ \E t \in T, fail \in BOOLEAN : handleDeleteJob_deleteApplications(t, fail)

CloseStep(T) ==
  \/ \E t \in T : \E job \in tab[t].jobs, st \in JobStatuses :
        handleChangeJobStatus(t, job, st)
  \/ \E t \in T, fail \in BOOLEAN, confirmClose \in BOOLEAN, keepId \in 0..MaxApps :
        handleChangeJobStatus_update(t, fail, confirmClose, keepId)
  \/ \E t \in T, fail \in BOOLEAN : handleChangeJobStatus_deleteApplications(t, fail)

SelectStep(T) ==
  \/ \E t \in T : \E conv \in Conversations(t) : loadConversationMessages(t, conv)
  \/ \E t \in T, fail \in BOOLEAN : \E conv \in tab[t].inflight :
        loadConversationMessages_select(t, conv, fail)

SendStep(T) ==
  \/ \E t \in T : handleSendMessage(t)
  \/ \E t \in T, fail \in BOOLEAN : handleSendMessage_insert(t, fail)

MessageStep(T) == SelectStep(T) \/ SendStep(T)

----------------------------------------------------------------------------
(* Specifications *)

\* a store that already holds open jobs of recruiter r1, one slot each
OpenJobs ==
  {[id |-> i, recruiter_id |-> "r1", status |-> ABIERTA, available_slots |-> Some(1)] :
     i \in {1, 2}}

InitWithJobs ==
  /\ jobs = OpenJobs
  /\ applications = {}
  /\ messages = {}
  /\ nextJobId = Cardinality(OpenJobs) + 1
  /\ nextAppId = 1
  /\ nextMsgId = 1
  /\ statusDefault \in StatusDefaults
  /\ InitAccounts
  /\ tab = [t \in Tabs |-> IdleTab]

\* students apply: three student tabs over the open jobs
NextApply ==
  \/ StudentStep(StudentTabs)
  \/ LoadStep(StudentTabs)

SpecApply == InitWithJobs /\ [][NextApply]_vars

\* the application lifecycle: students apply, two recruiter tabs accept and
\* reject from the four pages that offer it
\* a store in which both students have applied to job 1 and the rows still
\* have the default status
InitWithApplications ==
  /\ jobs = OpenJobs
  /\ statusDefault \in StatusDefaults
  /\ InitAccounts
  /\ applications =
       {[id |-> 1, job_id |-> 1, student_id |-> "s1", status |-> statusDefault],
        [id |-> 2, job_id |-> 1, student_id |-> "s2", status |-> statusDefault]}
  /\ messages = {}
  /\ nextJobId = Cardinality(OpenJobs) + 1
  /\ nextAppId = 3
  /\ nextMsgId = 1
  /\ tab = [t \in Tabs |-> IdleTab]

NextStatus ==
  \/ LoadStep(RecruiterTabs)
  \/ OpenStep({"t1"}, StatusPages, {0, 1})
  \/ OpenStep({"t2"}, {"Applications"}, {0})
  \/ StatusStep(RecruiterTabs)

SpecStatus == InitWithApplications /\ [][NextStatus]_vars

\* deleting: a recruiter tab closes jobs and deletes jobs while a student
\* applies
NextDelete ==
  \/ \E j \in {1, 2}, fail \in BOOLEAN : applyToJob_call(j, "s2", fail)
  \/ LoadStep({"t1"})
  \/ OpenStep({"t1"}, {"Dashboard", "Dashboard2"}, {0})
  \/ DeleteStep({"t1"})
  \/ CloseStep({"t1"})

\* a store in which student s1 has applied to job 1 and the recruiter has
\* written to that student about it
InitWithApplication ==
  /\ jobs = OpenJobs
  /\ statusDefault \in StatusDefaults
  /\ InitAccounts
  /\ applications =
       {[id |-> 1, job_id |-> 1, student_id |-> "s1", status |-> statusDefault]}
  /\ messages =
       {[id |-> 1, recruiter_id |-> "r1", student_id |-> "s1", job_id |-> 1,
         sender_type |-> "RECRUITER"]}
  /\ nextJobId = Cardinality(OpenJobs) + 1
  /\ nextAppId = 2
  /\ nextMsgId = 2
  /\ tab = [t \in Tabs |-> IdleTab]

SpecDelete == InitWithApplication /\ [][NextDelete]_vars

\* creation: one recruiter tab creates jobs from the three creation paths
\* (createJob with the slot counts a caller would pass) and edits their
\* slots with whatever the slots field takes
NextCreate ==
  \/ LoadStep({"t1"})
  \/ OpenStep({"t1"}, {"CreateJob", "JobNew", "JobDetail"}, {0, 1})
  \/ CreateStep({"t1"}, SlotInputs \ {<<-1>>})
  \/ SlotsStep({"t1"}, SlotInputs)

SpecCreate == Init /\ [][NextCreate]_vars

\* effects on the slots: jobs are created and their slots edited while
\* students apply and the applications are accepted and rejected
NextEffects ==
  \/ \E j \in 1..MaxJobs, fail \in BOOLEAN : applyToJob_call(j, "s2", fail)
  \/ LoadStep({"t1"})
  \/ OpenStep({"t1"}, {"JobNew", "JobDetail", "Applications"}, {0, 1})
  \/ SaveNewStep({"t1"})
  \/ SlotsStep({"t1"}, {<<0>>})
  \/ StatusStep({"t1"})

\* a store with one open job and one application to it
InitWithJob ==
  /\ jobs = {j \in OpenJobs : j.id = 1}
  /\ statusDefault \in StatusDefaults
  /\ InitAccounts
  /\ applications =
       {[id |-> 1, job_id |-> 1, student_id |-> "s1", status |-> statusDefault]}
  /\ messages = {}
  /\ nextJobId = 2
  /\ nextAppId = 2
  /\ nextMsgId = 1
  /\ tab = [t \in Tabs |-> IdleTab]

SpecEffects == InitWithJob /\ [][NextEffects]_vars

\* slots: two recruiter tabs on the detail page of job 1 edit its slots
\* while its applications are accepted and rejected
NextSlots ==
  \/ LoadStep(RecruiterTabs)
  \/ OpenStep(RecruiterTabs, {"JobDetail"}, {1})
  \/ SlotsStep(RecruiterTabs, {<<0>>, <<2>>})
  \/ DetailStatusStep({"t1"})

SpecSlots == InitWithJob /\ [][NextSlots]_vars

\* messaging: the recruiter and student s1 write to each other about job 1
NextMessages ==
  \/ LoadStep({"t1", "a1"})
  \/ OpenStep({"t1"}, {"Messages"}, {0})
  \/ OpenStep({"a1"}, {"StudentMessages"}, {0})
  \/ MessageStep({"t1", "a1"})

SpecMessages == InitWithJob /\ [][NextMessages]_vars

\* selecting: student s1 has applied to both jobs and each conversation
\* holds a message; the recruiter and the student switch between their two
\* conversations
InitWithConversations ==
  /\ jobs = OpenJobs
  /\ statusDefault \in StatusDefaults
  /\ InitAccounts
  /\ applications =
       {[id |-> 1, job_id |-> 1, student_id |-> "s1", status |-> statusDefault],
        [id |-> 2, job_id |-> 2, student_id |-> "s1", status |-> statusDefault]}
  /\ messages =
       {[id |-> 1, recruiter_id |-> "r1", student_id |-> "s1", job_id |-> 1,
         sender_type |-> "RECRUITER"],
        [id |-> 2, recruiter_id |-> "r1", student_id |-> "s1", job_id |-> 2,
         sender_type |-> "STUDENT"]}
  /\ nextJobId = Cardinality(OpenJobs) + 1
  /\ nextAppId = 3
  /\ nextMsgId = 3
  /\ tab = [t \in Tabs |-> IdleTab]

NextSelect ==
  \/ LoadStep({"t1", "a1"})
  \/ OpenStep({"t1"}, {"Messages"}, {0})
  \/ OpenStep({"a1"}, {"StudentMessages"}, {0})
  \/ SelectStep({"t1", "a1"})
  \/ SendStep({"t1"})

SpecSelect == InitWithConversations /\ [][NextSelect]_vars

\* conversations: job 1 is the recruiter's, job 2 another recruiter's;
\* student s1 has applied to job 1 and the recruiter has written about it.
\* One tab opens the messages page while the other closes job 1 and deletes
\* its applications and a second student applies to either job
InitWithForeignJob ==
  /\ jobs = {[j EXCEPT !.recruiter_id = IF j.id = 1 THEN "r1" ELSE "r2"] : j \in OpenJobs}
  /\ statusDefault \in StatusDefaults
  /\ InitAccounts
  /\ applications =
       {[id |-> 1, job_id |-> 1, student_id |-> "s1", status |-> statusDefault]}
  /\ messages =
       {[id |-> 1, recruiter_id |-> "r1", student_id |-> "s1", job_id |-> 1,
         sender_type |-> "RECRUITER"]}
  /\ nextJobId = Cardinality(OpenJobs) + 1
  /\ nextAppId = 2
  /\ nextMsgId = 2
  /\ tab = [t \in Tabs |-> IdleTab]

NextConversations ==
  \/ \E j \in {1, 2}, fail \in BOOLEAN : applyToJob_call(j, "s2", fail)
  \/ LoadStep(RecruiterTabs)
  \/ OpenStep({"t1"}, {"Messages"}, {0})
  \/ OpenStep({"t2"}, {"Dashboard"}, {0})
  \/ CloseStep({"t2"})

SpecConversations == InitWithForeignJob /\ [][NextConversations]_vars

\* status updates next to row deletion: one recruiter tab closes jobs and
\* deletes their applications, the other accepts and rejects
NextFrame ==
  \/ LoadStep(RecruiterTabs)
  \/ OpenStep({"t1"}, {"Dashboard"}, {0})
  \/ OpenStep({"t2"}, {"Applications"}, {0})
  \/ CloseStep({"t1"})
  \/ StatusStep({"t2"})

SpecFrame == InitWithApplications /\ [][NextFrame]_vars

\* the status wrapper called with any value, next to the detail page
NextForward ==
  \/ \E id \in 1..MaxApps, status \in StatusInputs :
        setApplicationStatus_call("t2", id, status)
  \/ \E fail \in BOOLEAN : setApplicationStatus_return("t2", fail)
  \/ LoadStep({"t1"})
  \/ OpenStep({"t1"}, {"JobDetail"}, {1})
  \/ DetailStatusStep({"t1"})

SpecForward == InitWithJob /\ [][NextForward]_vars

\* requests to the notification route from two clients, with and without
\* an applicationId, for an application that exists and one that does not
NextNotify == RouteStep({"t1", "t2"}, 0..MaxApps)

SpecNotify == InitWithJob /\ [][NextNotify]_vars

\* the applications page accepts and notifies while another session of
\* the recruiter rejects the same application
NextAccept ==
  \/ \E fail \in BOOLEAN : LoadApps("t1", fail)
  \/ OpenStep({"t1"}, {"Applications"}, {0})
  \/ NotifiedStatusStep({"t1"})
  \/ \E status \in {ACEPTADO, RECHAZADO} : setApplicationStatus_call("t2", 1, status)
  \/ \E fail \in BOOLEAN : setApplicationStatus_return("t2", fail)

SpecAccept == InitWithJob /\ [][NextAccept]_vars

\* a student on the job list while the recruiter closes and reopens the
\* job on the dashboard
NextStale ==
  \/ StudentStep({"a3"})
  \/ LoadStep({"a3", "t1"})
  \/ OpenStep({"t1"}, {"Dashboard"}, {0})
  \/ CloseStep({"t1"})

SpecStale == InitWithJob /\ [][NextStale]_vars

\* the applications page with two applications: status updates that
\* overlap
NextProcessing ==
  \/ \E fail \in BOOLEAN : LoadApps("t1", fail)
  \/ OpenStep({"t1"}, {"Applications"}, {0})
  \/ StatusStep({"t1"})
  \/ AgainStep({"t1"})

SpecProcessing == InitWithApplications /\ [][NextProcessing]_vars

\* two browsers log in, as student or as recruiter, with the email of a
\* student, of a recruiter and of nobody
NextLogin ==
  \/ OpenStep(VisitorTabs, {"Login"}, {0})
  \/ LoginStep(VisitorTabs, {"s1", "r1", "e1"})

SpecLogin == Init /\ [][NextLogin]_vars

\* a student applies on the job list and opens the dashboard while the
\* recruiter's code accepts and rejects
NextDashboard ==
  \/ StudentStep({"a1"})
  \/ LoadStep({"a1"})
  \/ OpenStep({"a1"}, {"StudentDashboard"}, {0})
  \/ \E id \in 1..MaxApps, status \in {ACEPTADO, RECHAZADO} :
        setApplicationStatus_call("t2", id, status)
  \/ \E fail \in BOOLEAN : setApplicationStatus_return("t2", fail)

SpecDashboard == InitWithJobs /\ [][NextDashboard]_vars

\* two visitors register, as student or as recruiter
NextRegister == RegisterStep(VisitorTabs)

SpecRegister == Init /\ [][NextRegister]_vars

----------------------------------------------------------------------------
(* C1: for every (job, student) pair the store holds at most one application
   row, and an applyToJob for a pair that already has a row fails with an
   error and creates no row. *)

\* the step in which tab t's awaited applyToJob call is performed
ApplyCallStep(t) ==
  tab[t].pc = "await_applyToJob" /\ tab'[t].pc # "await_applyToJob"

C1_OneRowPerPair ==
  \A a \in applications, b \in applications :
    (a.job_id = b.job_id /\ a.student_id = b.student_id) => a = b

C1_SecondApplyFails ==
  \A t \in Tabs :
    (ApplyCallStep(t) /\ UniqueViolation(tab[t].argJob, UserOf(t))) =>
      /\ applications' = applications
      /\ tab'[t].outcome = "error"
      /\ Includes(tab'[t].err, JOB_APPLICATION_ERROR)

C1_UniqueApplication == [](C1_OneRowPerPair) /\ [][C1_SecondApplyFails]_vars

\* a second application for a pair that has a row was refused by the store,
\* while that pair's row and another student's row for the same job exist
C1_Witness ==
  \E t \in Tabs :
    /\ tab[t].pc = "idle" /\ tab[t].outcome = "error"
    /\ Includes(tab[t].err, "duplicate key value violates unique constraint")
    /\ \E a \in applications, b \in applications :
         /\ a.job_id = tab[t].argJob /\ a.student_id = UserOf(t)
         /\ b.job_id = a.job_id /\ b.student_id # a.student_id

----------------------------------------------------------------------------
(* C4: after a recruiter deleted a job and the page reported success, the
   store holds no application row referencing that job, and the delete
   removed no message row: the message rows referencing the job are still
   there. *)

DeleteJobStep(t) ==
  /\ tab[t].pc \in {"await_delete_job", "await_delete_job_applications"}
  /\ tab'[t].pc # tab[t].pc

C4_NoApplicationOfDeletedJob ==
  \A t \in Tabs :
    (tab[t].outcome = "deleted" /\ tab[t].message.type = "success") =>
      /\ tab[t].argJob \notin JobIds
      /\ ~\E a \in applications : a.job_id = tab[t].argJob

C4_DeleteKeepsMessages ==
  \A t \in Tabs : DeleteJobStep(t) => messages' = messages

----------------------------------------------------------------------------
(* C2: setApplicationStatus(applicationId, status) changes the status field
   of the application row whose id is applicationId and nothing else: the
   other rows and the other fields of that row are unchanged, a successful
   call leaves the row with the given status, and when no row has that id
   no row changes. *)

StatusCallStep(t) ==
  /\ tab[t].pc = "await_setApplicationStatus"
  /\ tab'[t].pc # "await_setApplicationStatus"

C2_Frame ==
  \A t \in Tabs : StatusCallStep(t) =>
    LET id == tab[t].argApp
        status == tab[t].argStatus
    IN
    /\ \A a \in applications : a.id # id => a \in applications'
    /\ {a.id : a \in applications'} = {a.id : a \in applications}
    /\ \A a \in applications : a.id = id =>
         \E b \in applications' :
           /\ [b EXCEPT !.status = a.status] = a
           /\ b.status = IF tab'[t].outcome = "ok" THEN status ELSE a.status
    /\ (~\E a \in applications : a.id = id) => applications' = applications
    /\ jobs' = jobs /\ messages' = messages

C2_StatusFrame == [][C2_Frame]_vars

\* a call for an id whose row was deleted returned without error, next to a
\* row that an earlier call had set
C2_Witness ==
  \E t \in Tabs :
    /\ tab[t].outcome = "ok" /\ tab[t].argStatus \in {ACEPTADO, RECHAZADO}
    /\ tab[t].prior = ""
    /\ ~\E a \in applications : a.id = tab[t].argApp
    /\ \E a \in applications : a.status \in {ACEPTADO, RECHAZADO}

----------------------------------------------------------------------------
(* C3, as stated: on every page that offers accept / reject, the buttons of
   every listed application can be used whatever the status the row shows. *)
C3_EveryPageOffersEveryTransition ==
  \A t \in Tabs :
    (tab[t].page \in StatusPages /\ tab[t].pc = "idle") =>
      \A app \in tab[t].apps : ~StatusButtonDisabled(t, app)

(* C3, amended: the status update itself has no transition table (a
   successful call stores the given status whatever the prior one), and the
   applications page, the job detail page and the second dashboard offer
   both buttons on every listed row whatever its status; the first dashboard
   offers them only on rows it shows as PENDIENTE. *)
C3_Buttons ==
  \A t \in Tabs :
    (tab[t].page \in StatusPages /\ tab[t].pc = "idle") =>
      \A app \in tab[t].apps :
        StatusButtonDisabled(t, app) <=>
          (tab[t].page = "Dashboard" /\ app.status # PENDIENTE)

C3_AnyPrior ==
  \A t \in Tabs :
    (StatusCallStep(t) /\ tab'[t].outcome = "ok") =>
      \A a \in applications : a.id = tab[t].argApp =>
        /\ a.status \in {POSTULADO, PENDIENTE, ACEPTADO, RECHAZADO}
        /\ \E b \in applications' : b.id = a.id /\ b.status = tab[t].argStatus

C3_DashboardGuard ==
  \A t \in Tabs :
    (/\ tab[t].page = "Dashboard" /\ tab[t].pc = "idle"
     /\ tab'[t].pc = "await_setApplicationStatus") =>
      \E app \in tab[t].apps : app.id = tab'[t].argApp /\ app.status = PENDIENTE

C3_NoTransitionTable ==
  [](C3_Buttons) /\ [][C3_AnyPrior /\ C3_DashboardGuard]_vars

\* a rejected application was accepted again, and the page still offers the
\* buttons on the row it now shows as accepted
C3_Witness ==
  \E t \in Tabs :
    /\ tab[t].page \in StatusPages \ {"Dashboard"} /\ tab[t].pc = "idle"
    /\ tab[t].outcome = "ok" /\ tab[t].prior = RECHAZADO
    /\ tab[t].argStatus = ACEPTADO
    /\ \E app \in tab[t].apps :
         /\ app.id = tab[t].argApp /\ app.status = ACEPTADO
         /\ ~StatusButtonDisabled(t, app)

----------------------------------------------------------------------------
(* C5: every successful change of an application's status to ACEPTADO, from
   any page that calls the status update, is followed by one POST to
   /api/notifications/application-accepted with that application's id: a
   handler that accepted and ran to its end has posted once. *)
C5_AcceptIsNotified ==
  \A t \in Tabs :
    (tab[t].pc = "idle" /\ tab[t].accepted) => tab[t].posted = 1

----------------------------------------------------------------------------
(* C6: when the update to ACEPTADO succeeded and the notification call then
   fails (a response that is not OK, or a thrown error), the step changes no
   application row and no shown row, the row shown for the application is
   still ACEPTADO, and the message shown is of type success, not error. *)

FetchFailed(t) ==
  /\ tab[t].pc = "await_fetch"
  /\ tab'[t].pc = "idle"
  /\ tab'[t].outcome \in {"not_ok", "throw"}

C6_AwaitingFetchIsAccepted ==
  \A t \in Tabs : tab[t].pc = "await_fetch" =>
    /\ tab[t].accepted /\ tab[t].argStatus = ACEPTADO
    /\ \A app \in tab[t].apps : app.id = tab[t].argApp => app.status = ACEPTADO

C6_FailureKeepsAccepted ==
  \A t \in Tabs : FetchFailed(t) =>
    /\ applications' = applications
    /\ tab'[t].apps = tab[t].apps
    /\ \A app \in tab'[t].apps : app.id = tab[t].argApp => app.status = ACEPTADO
    /\ tab'[t].message.type = "success"
    /\ tab'[t].accepted

C6_NotificationFailure ==
  [](C6_AwaitingFetchIsAccepted) /\ [][C6_FailureKeepsAccepted]_vars

\* the notification failed after an accept: stored and shown status are
\* ACEPTADO and the message is the softened success
C6_Witness ==
  \E t \in Tabs :
    /\ tab[t].pc = "idle" /\ tab[t].outcome \in {"not_ok", "throw"}
    /\ tab[t].message.type = "success"
    /\ StoredStatus(tab[t].argApp) = ACEPTADO
    /\ \E app \in tab[t].apps : app.id = tab[t].argApp /\ app.status = ACEPTADO

----------------------------------------------------------------------------
(* C7: for every job-creation input, the created job row's available_slots
   is the supplied slot count, or 1 when no slot count is supplied. *)

CreationStep(t) ==
  /\ tab[t].pc \in {"await_createJob", "await_insert_job"}
  /\ tab'[t].outcome = "created"

C7_Created ==
  \A t \in Tabs : CreationStep(t) =>
    \A j \in jobs' \ jobs :
      j.available_slots =
        IF IsNull(tab'[t].argSlots) THEN Some(1) ELSE tab'[t].argSlots

C7_CreatedSlots == [][C7_Created]_vars

----------------------------------------------------------------------------
(* C8: updateJobAvailability(jobId, n) overwrites the stored available_slots
   of the job with n whatever the current value and whatever the number of
   accepted applications, and touches nothing else; of two sessions that
   update the same job both succeed and the stored value is that of the
   call that returned last. *)

UpdateSlotsStep(t) ==
  /\ tab[t].pc = "await_updateJobAvailability"
  /\ tab'[t].pc # "await_updateJobAvailability"

C8_Overwrite ==
  \A t \in Tabs : UpdateSlotsStep(t) =>
    /\ \A j \in jobs : j.id # tab[t].argJob => j \in jobs'
    /\ {j.id : j \in jobs'} = {j.id : j \in jobs}
    /\ \A j \in jobs : j.id = tab[t].argJob =>
         \E k \in jobs' :
           /\ [k EXCEPT !.available_slots = j.available_slots] = j
           /\ k.available_slots = IF tab'[t].outcome = "ok"
                                  THEN tab[t].argSlots ELSE j.available_slots
    /\ applications' = applications

C8_LastWriteWins == [][C8_Overwrite]_vars

\* both tabs wrote the slots of the same job with success, the store holds
\* the later value 0 although an application is accepted, and the other tab
\* still shows its own value
C8_Witness ==
  /\ tab["t1"].outcome = "ok" /\ tab["t1"].pc = "idle"
  /\ tab["t1"].argSlots = Some(0) /\ tab["t1"].argJob = 1
  /\ tab["t2"].message = Msg("success", "Disponibilidad actualizada.")
  /\ tab["t2"].argSlots = Some(2) /\ tab["t2"].argJob = 1
  /\ \E j \in tab["t2"].jobs : j.available_slots = Some(2)
  /\ \E j \in jobs : j.id = 1 /\ j.available_slots = Some(0)
  /\ \E a \in applications : a.job_id = 1 /\ a.status = ACEPTADO

----------------------------------------------------------------------------
(* C9: in every reachable state every job's stored available_slots is a
   non-negative integer. *)
C9_SlotsNonNegative ==
  \A j \in jobs : ~IsNull(j.available_slots) /\ j.available_slots[1] >= 0

----------------------------------------------------------------------------
(* C10: accepting or rejecting an application, and applying to a job, leave
   every job's available_slots unchanged: a slot count changes, or a job row
   appears, only in the step of a slot update or of a job creation. *)

SlotsOf(rows) == {<<j.id, j.available_slots>> : j \in rows}

C10_Frame ==
  /\ \A t \in Tabs :
       (tab[t].pc \in {"await_setApplicationStatus", "await_fetch", "await_applyToJob"}
        /\ tab'[t].pc # tab[t].pc) => jobs' = jobs
  /\ applications' # applications => jobs' = jobs
  /\ SlotsOf(jobs') # SlotsOf(jobs) =>
       \E t \in Tabs :
         /\ tab[t].pc \in {"await_updateJobAvailability", "await_insert_job",
                           "await_createJob"}
         /\ tab'[t].pc # tab[t].pc

C10_SlotsOnlyByUpdate == [][C10_Frame]_vars

\* a student applied, the application was accepted, and the job still has
\* the slot count it started with
C10_Witness ==
  \E t \in Tabs :
    /\ tab[t].pc = "idle" /\ tab[t].accepted
    /\ \E a \in applications :
         /\ a.id = tab[t].argApp /\ a.id >= 2 /\ a.status = ACEPTADO
         /\ \E j \in jobs : j.id = a.job_id /\ j.available_slots = Some(1)

----------------------------------------------------------------------------
(* C11: loading a conversation returns exactly the message rows whose
   (recruiter, student, job) are the conversation's triple, in ascending
   creation order, in the recruiter's and in the student's message view. *)

C11_Loaded ==
  \A t \in Tabs : \A conv \in tab[t].inflight :
    (conv \notin tab'[t].inflight /\ tab'[t].outcome = "loaded") =>
      LET seq == tab'[t].msgs
          rows == {m \in messages : <<m.recruiter_id, m.student_id, m.job_id>>
                                      = Triple(t, conv)}
      IN /\ {seq[i] : i \in 1..Len(seq)} = rows
         /\ Len(seq) = Cardinality(rows)
         /\ \A i \in 1..(Len(seq) - 1) : seq[i].id < seq[i + 1].id

C11_LoadConversation == [][C11_Loaded]_vars

\* the recruiter and the student have each loaded a conversation of two
\* rows while the store also holds a row of their other conversation
C11_Witness ==
  /\ tab["t1"].outcome = "loaded" /\ Len(tab["t1"].msgs) = 2
  /\ tab["a1"].outcome = "loaded" /\ Len(tab["a1"].msgs) = 2
  /\ \E m \in messages : m.job_id # tab["a1"].msgs[1].job_id

----------------------------------------------------------------------------
(* C12: the conversation list a recruiter's messages page builds holds one
   entry for each distinct (student, job) pair that has an application row
   on one of the recruiter's jobs and no other entry; a pair whose
   application row was deleted has no conversation even when message rows
   of it still exist. *)

ConversationsLoaded(t) ==
  /\ tab[t].page = "Messages" /\ tab[t].pc = "load_apps"
  /\ tab'[t].pc = "idle" /\ tab'[t].message.type # "error"

C12_FromApplications ==
  \A t \in RecruiterTabs : ConversationsLoaded(t) =>
    Conversations(t)' =
      {<<a.student_id, a.job_id>> :
         a \in {b \in applications :
                  \E j \in jobs : j.id = b.job_id /\ j.recruiter_id = UserOf(t)}}

C12_ConversationList == [][C12_FromApplications]_vars

\* the page has loaded a conversation of a later applicant, and none for
\* the pair whose application was deleted although its message row exists
C12_Witness ==
  \E t \in RecruiterTabs :
    /\ tab[t].page = "Messages" /\ tab[t].pc = "idle"
    /\ tab[t].message.type # "error"
    /\ <<"s2", 1>> \in Conversations(t)
    /\ <<"s1", 1>> \notin Conversations(t)
    /\ \E m \in messages : m.student_id = "s1" /\ m.job_id = 1

----------------------------------------------------------------------------
(* C13: a message the counterpart inserts after a user loaded a conversation
   does not appear in that user's message list until the user loads the
   conversation again: the list of a tab changes only when a load or a send
   of that tab returns, or when the page is opened anew. *)

OwnReturn(t) ==
  \/ tab'[t].inflight # tab[t].inflight
  \/ tab[t].sending # <<>> /\ tab'[t].sending = <<>>
  \/ tab[t].pc = "idle" /\ tab'[t].outcome = "none" /\ tab'[t].msgs = <<>>

C13_ListFrame ==
  \A t \in Tabs :
    /\ tab'[t].msgs # tab[t].msgs => OwnReturn(t)
    /\ (messages' # messages /\ tab[t].sending = <<>>) => tab'[t].msgs = tab[t].msgs

C13_NoBackgroundRefresh == [][C13_ListFrame]_vars

\* a tab shows a loaded conversation, nothing of it is in flight, and the
\* store holds a newer row of that conversation, written by the
\* counterpart, that the list lacks
C13_Witness ==
  \E t \in Tabs :
    /\ tab[t].page \in MessagePages /\ tab[t].selected # <<>>
    /\ tab[t].outcome = "loaded" /\ tab[t].inflight = {} /\ tab[t].sending = <<>>
    /\ ~tab[t].loadingMessages
    /\ \E m \in ConversationRows(t, tab[t].selected) :
         /\ m.sender_type = (IF t \in StudentTabs THEN "RECRUITER" ELSE "STUDENT")
         /\ \A i \in 1..Len(tab[t].msgs) : tab[t].msgs[i].id < m.id

----------------------------------------------------------------------------
(* C14: when the store returns an error, createJob, updateJobAvailability,
   applyToJob and setApplicationStatus throw an Error whose message is the
   function's prefix followed by the store's error message, the prefix
   appearing once. *)

Prefixes ==
  {JOB_CREATE_ERROR, JOB_AVAILABILITY_ERROR, JOB_APPLICATION_ERROR,
   APPLICATION_STATUS_ERROR}

C14_PrefixOnce ==
  \A t \in Tabs :
    tab[t].err # <<>> =>
      /\ Len(tab[t].err) = 2
      /\ tab[t].err[1] \in Prefixes
      /\ tab[t].err[2] \notin Prefixes

----------------------------------------------------------------------------
(* C15: whenever a domain wrapper fails with an error whose message
   contains its fixed prefix, the page that called it shows a generic
   translated message with none of the backend's error text; only errors
   without a recognised prefix are shown verbatim. *)

DomainPrefixes ==
  Prefixes \cup {AUTH_ERROR, STUDENT_INSERT_ERROR, RECRUITER_INSERT_ERROR}

HasDomainPrefix(err) == \E prefix \in DomainPrefixes : Includes(err, prefix)

C15_PrefixedErrorsTranslated ==
  \A t \in Tabs :
    (tab[t].err # <<>> /\ HasDomainPrefix(tab[t].err)) => tab[t].verbatim = <<>>

----------------------------------------------------------------------------
(* C16: application logic never rejects a status value: setApplicationStatus
   forwards whatever status it is given to the store without checking it
   against the known statuses, so a value outside that set is stored when
   the store accepts it. *)

\* a call of the wrapper returns without an error in this step
C16_Returned(t) ==
  /\ tab[t].pc \in {"await_update", "await_setApplicationStatus"}
  /\ tab'[t].outcome = "ok"

C16_Stored ==
  \A t \in Tabs : C16_Returned(t) =>
     \A a \in applications' : a.id = tab[t].argApp => a.status = tab[t].argStatus

\* an error of the wrapper is an error of the store, for every status
C16_NeverRejected ==
  \A t \in Tabs : tab[t].err # <<>> => tab[t].err[Len(tab[t].err)] = "store error"

C16_AnyStatusForwarded == []C16_NeverRejected /\ [][C16_Stored]_vars

\* a status outside the known ones is in the store
C16_Witness ==
  \E a \in applications : a.status \notin {POSTULADO, PENDIENTE, ACEPTADO, RECHAZADO}

----------------------------------------------------------------------------
(* C17: the notification endpoint returns the success body
   {applicationId, studentEmail} if and only if the email send was attempted
   and reported no error; a missing applicationId, a failed or empty
   application lookup and a failed email-address lookup each return an error
   body without any email being sent, and a failed send returns an error
   body. *)

\* the response of a finished request
C17_Response(t) ==
  LET r == tab[t].route IN
  r.pc = "done" =>
    /\ r.ok <=> (r.attempted /\ ~r.sendError)
    /\ r.ok => /\ r.status = 200
               /\ r.body = <<r.applicationId, r.studentEmail>>
               /\ \E i \in 1..Len(outbox) : outbox[i].applicationId = r.applicationId
    /\ ~r.ok => r.status \in {400, 404, 500, 502} /\ r.body = <<>>
    /\ r.status \in {400, 404} => ~r.attempted
    /\ r.status = 502 => r.attempted /\ r.sendError

\* an email leaves only in the step in which a request gets its success body
C17_MailOnlyOnSuccess ==
  outbox' # outbox =>
    \E t \in Tabs : /\ tab[t].route.pc = "await_send"
                    /\ tab'[t].route.pc = "done" /\ tab'[t].route.ok
                    /\ Len(outbox') = Len(outbox) + 1

\* a request ends without an attempt to send only with an error body
C17_NoAttemptNoMail ==
  \A t \in Tabs :
    (tab[t].route.pc # "done" /\ tab'[t].route.pc = "done" /\ ~tab'[t].route.attempted)
      => (outbox' = outbox /\ ~tab'[t].route.ok)

C17_NotificationResponse ==
  /\ [](\A t \in Tabs : C17_Response(t))
  /\ [][C17_MailOnlyOnSuccess /\ C17_NoAttemptNoMail]_vars

\* one request answered with the success body after its email left, another
\* answered 404, and one failed send
C17_Witness ==
  /\ tab["t1"].route.pc = "done" /\ tab["t1"].route.ok /\ Len(outbox) = 1
  /\ tab["t2"].route.pc = "done" /\ tab["t2"].route.status \in {404, 502}

----------------------------------------------------------------------------
(* C18: registerStudent and registerRecruiter create the auth account first
   and insert the profile row second: when sign-up fails or returns no user
   id they throw AUTH_ERROR without attempting the profile insert, when the
   profile insert fails they throw STUDENT_INSERT_ERROR /
   RECRUITER_INSERT_ERROR, and they return the user id only when a profile
   row whose id equals the auth user id was inserted. *)

ProfilesUnchanged == students' = students /\ recruiters' = recruiters

\* the profile rows a step inserts
InsertedProfileIds ==
  {s.id : s \in students' \ students} \cup {r.id : r \in recruiters' \ recruiters}

C18_SignUp(t) ==
  (tab[t].pc = "await_signUp" /\ tab'[t].pc # "await_signUp") =>
    /\ ProfilesUnchanged
    /\ tab'[t].outcome = "error" =>
         /\ tab'[t].err[1] = AUTH_ERROR /\ Len(tab'[t].err) = 2
         /\ tab'[t].pc = "idle"
         /\ users' = users
    /\ tab'[t].pc = "await_insertProfile" =>
         \E u \in users' \ users : u.id = tab'[t].userId

C18_Insert(t) ==
  (tab[t].pc = "await_insertProfile" /\ tab'[t].pc # "await_insertProfile") =>
    /\ tab'[t].outcome \in {"error", "registered"}
    /\ tab'[t].outcome = "error" =>
         /\ ProfilesUnchanged
         /\ Len(tab'[t].err) = 2
         /\ tab'[t].err[1] = (IF tab[t].page = "RegisterStudent"
                              THEN STUDENT_INSERT_ERROR ELSE RECRUITER_INSERT_ERROR)
    /\ tab'[t].outcome = "registered" =>
         /\ InsertedProfileIds = {tab[t].userId}
         /\ \E u \in users : u.id = tab[t].userId
         /\ IF tab[t].page = "RegisterStudent"
            THEN recruiters' = recruiters ELSE students' = students

C18_AccountThenProfile ==
  [][/\ \A t \in VisitorTabs : C18_SignUp(t) /\ C18_Insert(t)
     /\ ~ProfilesUnchanged => \E t \in VisitorTabs : tab[t].pc = "await_insertProfile"]_vars

\* one registration returned the id of its new profile row, another threw
\* the insert error of its page
C18_Witness ==
  /\ tab["a3"].outcome = "registered"
  /\ \E s \in students : s.id = tab["a3"].userId
  /\ tab["t2"].outcome = "error"
  /\ tab["t2"].err[1] \in {STUDENT_INSERT_ERROR, RECRUITER_INSERT_ERROR}

----------------------------------------------------------------------------
(* C19: when a recruiter sets a job to closed and confirms the deletion of
   its applications, afterwards the store holds no application row for that
   job except the one whose id was entered to keep (none when the field was
   left empty), application rows of other jobs are untouched, and no message
   row is deleted. *)

\* the delete of the closed job's applications succeeds in this step
C19_Deleted(t) ==
  /\ tab[t].pc = "await_delete_closed_applications"
  /\ tab'[t].outcome = "closed"

C19_AfterDelete(t) ==
  LET jobId == tab[t].argJob
      keepId == tab[t].argApp
  IN C19_Deleted(t) =>
       /\ \A a \in applications' : a.job_id = jobId => a.id = keepId
       /\ \A a \in applications : (a.job_id = jobId /\ a.id = keepId) => a \in applications'
       /\ {a \in applications' : a.job_id # jobId} = {a \in applications : a.job_id # jobId}
       /\ messages' = messages

C19_CloseDeletesOnlyItsApplications ==
  [][(\A t \in Tabs : C19_AfterDelete(t)) /\ messages \subseteq messages']_vars

\* job 1 was closed keeping application 1: the second application of job 1
\* is gone, the message of the conversation is still stored
C19_Witness ==
  /\ tab["t2"].outcome = "closed" /\ tab["t2"].argApp = 1
  /\ nextAppId = 3
  /\ {a.id : a \in applications} = {1}
  /\ messages # {}

----------------------------------------------------------------------------
(* C20: in the messages view, the message list on the screen always belongs
   to the currently selected conversation, also when the user selects a
   second conversation while the load of the first is still in flight and
   the two responses arrive in either order. *)

\* the list is on the screen when a conversation is selected and the page
\* does not show its loading text
C20_ListOfSelected ==
  \A t \in Tabs :
    (tab[t].page \in MessagePages /\ tab[t].selected # <<>> /\ ~tab[t].loadingMessages) =>
      \A i \in 1..Len(tab[t].msgs) :
        <<tab[t].msgs[i].recruiter_id, tab[t].msgs[i].student_id, tab[t].msgs[i].job_id>>
          = Triple(t, tab[t].selected)

----------------------------------------------------------------------------
(* C21: the notification endpoint sends the acceptance email only for an
   application whose stored status is ACEPTADO at the time the email is
   sent, under any interleaving of accept, reject and notification
   requests. *)

\* the email that leaves in this step, if one does
C21_Sent == outbox' # outbox

C21_EmailOnlyForAccepted ==
  [][C21_Sent =>
       StoredStatus(outbox'[Len(outbox')].applicationId) = ACEPTADO]_vars

----------------------------------------------------------------------------
(* C22: no application row is ever created for a job whose stored status is
   CERRADA or whose stored available_slots is zero or less, also when the
   recruiter closes the job or changes its slots after the student loaded
   the job list. *)

\* the job is open and has a slot, in the store
C22_Accepting(jobId) ==
  \E j \in jobs : /\ j.id = jobId
                  /\ j.status = ABIERTA
                  /\ ~IsNull(j.available_slots)
                  /\ j.available_slots[1] > 0

C22_NoApplicationForClosedJob ==
  [][\A a \in applications' \ applications : C22_Accepting(a.job_id)]_vars

----------------------------------------------------------------------------
(* C23: on the recruiter applications page, while a status update for an
   application is in flight that application's accept and reject buttons
   stay disabled until the update finishes, also when the recruiter starts
   a status update for another application in the meantime. *)

\* the applications whose update is in flight in tab t
C23_InFlight(t) ==
  (IF tab[t].pc \in {"await_setApplicationStatus", "await_fetch"}
   THEN {tab[t].argApp} ELSE {}) \cup
  (IF tab[t].other.pc # "none" THEN {tab[t].other.argApp} ELSE {})

C23_InFlightDisabled ==
  \A t \in Tabs :
    tab[t].page = "Applications" =>
      \A app \in tab[t].apps :
        app.id \in C23_InFlight(t) => StatusButtonDisabled(t, app)

----------------------------------------------------------------------------
(* C24: whenever changing a job's status from the recruiter dashboard ends
   with the error message that the job status could not be updated, the
   job's stored status is the one it had before the operation. *)

\* handleChangeJobStatus ends in its catch in this step
C24_EndsWithError(t) ==
  /\ tab[t].pc \in {"await_update_job_status", "await_delete_closed_applications"}
  /\ tab'[t].pc = "idle"
  /\ tab'[t].message = Msg("error", "No se pudo actualizar el estado de la vacante.")

\* tab[t].prior is the stored status the handler's update replaced, "" when
\* the update has not been done
C24_StatusAsBefore(t) ==
  C24_EndsWithError(t) =>
    IF tab[t].prior = "" THEN jobs' = jobs
    ELSE \A j \in jobs' : j.id = tab[t].argJob => j.status = tab[t].prior

C24_ErrorKeepsJobStatus == [][\A t \in Tabs : C24_StatusAsBefore(t)]_vars

----------------------------------------------------------------------------
(* C25: registration is all-or-nothing: after registerStudent or
   registerRecruiter fails with a profile insert error, no auth account
   exists for the submitted email, so the same email can be registered
   again. *)

\* the registration of tab t ended with the error of the profile insert
C25_InsertFailed(t) ==
  /\ tab[t].outcome = "error"
  /\ tab[t].err # <<>>
  /\ tab[t].err[1] \in {STUDENT_INSERT_ERROR, RECRUITER_INSERT_ERROR}

C25_AllOrNothing ==
  \A t \in VisitorTabs : C25_InsertFailed(t) => ~EmailTaken(tab[t].email)

----------------------------------------------------------------------------
(* C26: whenever a login attempt ends with an error message (wrong
   credentials, profile lookup error, or no profile row for the chosen
   role), the client holds no authenticated session afterwards. *)

\* the login attempt of tab t ended with an error message
C26_LoginError(t) ==
  /\ tab[t].page = "Login" /\ tab[t].pc = "idle"
  /\ tab[t].outcome = "error"
  /\ tab[t].message.type = "error"

C26_ErrorMeansNoSession ==
  \A t \in VisitorTabs : C26_LoginError(t) => tab[t].session = ""

----------------------------------------------------------------------------
(* C27: on the student dashboard the pending, accepted and rejected counts
   add up to the total number of the student's applications, for every
   status an application can have after being created by applyToJob and
   updated by setApplicationStatus. *)

C27_CountsAddUp ==
  \A t \in StudentTabs :
    (tab[t].page = "StudentDashboard" /\ tab[t].pc = "idle") =>
      pending(t) + accepted(t) + rejected(t) = totalApplications(t)

====
